---- MODULE Spec2Model ----
(***************************************************************************)
(* Model of the naologic-scheduler reflow pipeline:                        *)
(*   DateUtils (calendar math), ConstraintChecker.verify,                  *)
(*   SequencePreserver.prepare and ReflowService.reflow.                   *)
(*                                                                         *)
(* Time is counted in whole minutes of UTC since a Sunday 00:00            *)
(* (2026-02-08T00:00:00Z), so 2026-02-09T08:00:00Z (a Monday) is           *)
(* 1 * 1440 + 8 * 60.  An ISO-8601 string is the pair of the instant it    *)
(* denotes and its textual form: "sec" for 2026-02-09T08:00:00Z (what the  *)
(* data files hold) and "ms" for 2026-02-09T08:00:00.000Z (what Luxon's    *)
(* toISO writes).                                                          *)
(***************************************************************************)
EXTENDS Integers, Sequences, FiniteSets, TLC

(***************************************************************************)
(* Luxon DateTime arithmetic in UTC                                        *)
(***************************************************************************)
MinutesPerDay == 24 * 60

\* DateTime.fromISO(s, { zone: 'utc' }): the instant of an ISO string
fromISO(s) == s.t

\* DateTime.toISO(): always written with milliseconds
toISO(t) == [t |-> t, fmt |-> "ms"]

\* an ISO string as the scenario files write it
Iso(t) == [t |-> t, fmt |-> "sec"]

\* time.startOf('day')
startOfDay(t) == (t \div MinutesPerDay) * MinutesPerDay

\* time.weekday % 7 : 0 = Sunday .. 6 = Saturday
dayOfWeekOf(t) == (t \div MinutesPerDay) % 7

\* time.hour
hourOf(t) == (t % MinutesPerDay) \div 60

\* time.set({ hour: h, minute: 0, second: 0, millisecond: 0 })
setHour(t, h) == startOfDay(t) + h * 60

\* a variant of the day jump that forgets the day it adds
todayMidnight(t) == startOfDay(t)

\* time.plus({ days: 1 }).set({ hour: 0, minute: 0, second: 0, millisecond: 0 })
nextDayMidnight(t) == startOfDay(t) + MinutesPerDay

Max(a, b) == IF a >= b THEN a ELSE b

Min(a, b) == IF a <= b THEN a ELSE b

\* Interval.fromDateTimes(s1, e1).overlaps(Interval.fromDateTimes(s2, e2))
IntervalOverlaps(s1, e1, s2, e2) == s1 <= e1 /\ s2 <= e2 /\ e1 > s2 /\ s1 < e2

\* length in minutes of Interval.intersection, 0 when it is null
IntersectionMinutes(s1, e1, s2, e2) ==
  LET s == Max(s1, s2)
      e == Min(e1, e2)
  IN IF s >= e THEN 0 ELSE e - s

(***************************************************************************)
(* Array helpers                                                           *)
(***************************************************************************)
\* Array.prototype.findIndex, 1-based; 0 when nothing matches
FindIndex(seq, P(_)) ==
  IF \E i \in DOMAIN seq : P(seq[i])
  THEN CHOOSE i \in DOMAIN seq : P(seq[i]) /\ \A j \in 1..(i - 1) : ~P(seq[j])
  ELSE 0

\* Array.prototype.some
Some(seq, P(_)) == \E i \in DOMAIN seq : P(seq[i])

\* Array.prototype.includes
Includes(seq, x) == \E i \in DOMAIN seq : seq[i] = x

RECURSIVE Flatten(_)
\* violations.push(...part) over a list of parts
Flatten(ss) == IF ss = <<>> THEN <<>> ELSE Head(ss) \o Flatten(Tail(ss))

\* Array.prototype.sort by start instant; the sort is stable, so equal starts
\* keep their array order
sortByStart(os) ==
  LET n == Len(os)
      Before(j, i) ==
        \/ fromISO(os[j].startDate) < fromISO(os[i].startDate)
        \/ fromISO(os[j].startDate) = fromISO(os[i].startDate) /\ j < i
      Rank(i) == Cardinality({j \in 1..n : Before(j, i)}) + 1
  IN [k \in 1..n |-> os[CHOOSE i \in 1..n : Rank(i) = k]]

\* the keys of groupBy's record, in insertion order
groupKeys(os) ==
  LET First(i) == \A j \in 1..(i - 1) : os[j].workCenterId # os[i].workCenterId
      idx == SelectSeq([i \in 1..Len(os) |-> i], First)
  IN [k \in 1..Len(idx) |-> os[idx[k]].workCenterId]

\* groupBy(orders, o => o.data.workCenterId)[key]
groupOf(os, key) == SelectSeq(os, LAMBDA o : o.workCenterId = key)

(***************************************************************************)
(* DateUtils                                                               *)
(***************************************************************************)
\* DateUtils.isTimeInShift
isTimeInShift(time, shifts, isEnd) ==
  \E i \in DOMAIN shifts :
    LET s == shifts[i]
        shiftStart == setHour(time, s.startHour)
        shiftEnd == setHour(time, s.endHour)
    IN /\ s.dayOfWeek = dayOfWeekOf(time)
       /\ IF isEnd
          THEN time > shiftStart /\ time <= shiftEnd
          ELSE time >= shiftStart /\ time < shiftEnd

\* the minutes one shift of one calendar day adds to the total
workInShiftMinutes(start, end, day, shift, windows) ==
  LET shiftStart == setHour(day, shift.startHour)
      shiftEnd == setHour(day, shift.endHour)
      ws == Max(start, shiftStart)
      we == Min(end, shiftEnd)
      RECURSIVE Subtract(_, _)
      Subtract(k, m) ==
        IF k > Len(windows) THEN m
        ELSE Subtract(k + 1,
               m - IntersectionMinutes(ws, we, fromISO(windows[k].startDate),
                                       fromISO(windows[k].endDate)))
  IN IF shiftStart > shiftEnd \/ ws >= we THEN 0
     ELSE Max(0, Subtract(1, we - ws))

\* DateUtils.calculateWorkingMinutes
calculateWorkingMinutes(startISO, endISO, center) ==
  LET start == fromISO(startISO)
      end == fromISO(endISO)
      lastDay == startOfDay(end)
      shifts == center.shifts
      RECURSIVE OverShifts(_, _)
      OverShifts(day, k) ==
        IF k > Len(shifts) THEN 0
        ELSE (IF shifts[k].dayOfWeek = dayOfWeekOf(day)
              THEN workInShiftMinutes(start, end, day, shifts[k],
                                      center.maintenanceWindows)
              ELSE 0) + OverShifts(day, k + 1)
      RECURSIVE OverDays(_)
      OverDays(day) ==
        IF day > lastDay THEN 0
        ELSE OverShifts(day, 1) + OverDays(day + MinutesPerDay)
  IN IF start >= end THEN 0 ELSE OverDays(startOfDay(start))

(***************************************************************************)
(* ConstraintChecker                                                       *)
(***************************************************************************)
\* a Violation; the message is kept as its fixed text and the values it quotes
Violation(orderId, type, isFatal, text, refs) ==
  [orderId |-> orderId, type |-> type, isFatal |-> isFatal,
   message |-> [text |-> text, refs |-> refs]]

\* centers.find((c) => c.docId === id): its index, 0 when there is none
centerIndex(centers, id) == FindIndex(centers, LAMBDA c : c.docId = id)

\* ConstraintChecker.checkOrderCollidesWithMaintenanceWindow
checkOrderCollidesWithMaintenanceWindow(orders, centers) ==
  LET Collides(o) ==
        LET ci == centerIndex(centers, o.workCenterId)
        IN /\ ~o.isMaintenance
           /\ ci # 0
           /\ Some(centers[ci].maintenanceWindows,
                   LAMBDA mw : IntervalOverlaps(fromISO(o.startDate), fromISO(o.endDate),
                                                fromISO(mw.startDate), fromISO(mw.endDate)))
      hit == SelectSeq(orders, Collides)
  IN [k \in 1..Len(hit) |->
        Violation(hit[k].docId, "MAINTENANCE_COLLISION", FALSE,
                  "overlaps with a blocked Maintenance Window",
                  <<hit[k].workOrderNumber>>)]

\* a variant of the neighbour test that also takes a next order starting at the
\* very end of the current one
adjacentTouching(sorted, type, isFatal, text, wcId) ==
  LET idx == SelectSeq([i \in 1..(Len(sorted) - 1) |-> i],
                       LAMBDA i : fromISO(sorted[i + 1].startDate) <= fromISO(sorted[i].endDate))
  IN [k \in 1..Len(idx) |->
        Violation(sorted[idx[k] + 1].docId, type, isFatal, text,
                  <<wcId, sorted[idx[k]].docId, fromISO(sorted[idx[k]].endDate)>>)]

\* the adjacent pairs of one sorted group that overlap, as violations on `next`
adjacentOverlaps(sorted, type, isFatal, text, wcId) ==
  LET idx == SelectSeq([i \in 1..(Len(sorted) - 1) |-> i],
                       LAMBDA i : fromISO(sorted[i + 1].startDate) < fromISO(sorted[i].endDate))
  IN [k \in 1..Len(idx) |->
        Violation(sorted[idx[k] + 1].docId, type, isFatal, text,
                  <<wcId, sorted[idx[k]].docId, fromISO(sorted[idx[k]].endDate)>>)]

\* ConstraintChecker.checkOverlaps
checkOverlaps(orders) ==
  LET keys == groupKeys(orders)
  IN Flatten([g \in 1..Len(keys) |->
       adjacentOverlaps(sortByStart(groupOf(orders, keys[g])), "OVERLAP", FALSE,
                        "Work Center is busy", keys[g])])

\* a variant of the checker without the pass over the maintenance orders
noFixedOrderOverlaps(orders) == <<>>

\* ConstraintChecker.checkFixedOrderOverlaps
checkFixedOrderOverlaps(orders) ==
  LET fixedOrders == SelectSeq(orders, LAMBDA o : o.isMaintenance)
      keys == groupKeys(fixedOrders)
  IN Flatten([g \in 1..Len(keys) |->
       adjacentOverlaps(sortByStart(groupOf(fixedOrders, keys[g])),
                        "MAINTENANCE_COLLISION", TRUE,
                        "FATAL: overlaps with another fixed Maintenance Order", keys[g])])

\* the OUTSIDE_SHIFT violations of one order (the body of checkShifts' loop)
shiftViolations(o, centers) ==
  LET ci == centerIndex(centers, o.workCenterId)
      center == centers[ci]
      start == fromISO(o.startDate)
      end == fromISO(o.endDate)
      actualMins == calculateWorkingMinutes(o.startDate, o.endDate, center)
      diff == actualMins - o.durationMinutes
      isStartInShift ==
        Some(center.shifts, LAMBDA s : /\ s.dayOfWeek = dayOfWeekOf(start)
                                       /\ hourOf(start) >= s.startHour
                                       /\ hourOf(start) < s.endHour)
      isEndInShift ==
        Some(center.shifts, LAMBDA s : /\ s.dayOfWeek = dayOfWeekOf(end)
                                       /\ hourOf(end) > s.startHour
                                       /\ hourOf(end) <= s.endHour)
  IN IF o.isMaintenance \/ ci = 0 THEN <<>>
     ELSE (IF diff > 1 \/ diff < -1
           THEN <<Violation(o.docId, "OUTSIDE_SHIFT", FALSE, "Total work time mismatch",
                            <<o.durationMinutes, actualMins>>)>>
           ELSE <<>>)
          \o (IF ~isStartInShift
              THEN <<Violation(o.docId, "OUTSIDE_SHIFT", FALSE, "Invalid Start", <<start>>)>>
              ELSE <<>>)
          \o (IF ~isEndInShift
              THEN <<Violation(o.docId, "OUTSIDE_SHIFT", FALSE, "Invalid End", <<end>>)>>
              ELSE <<>>)

\* ConstraintChecker.checkShifts
checkShifts(orders, centers) ==
  Flatten([i \in 1..Len(orders) |-> shiftViolations(orders[i], centers)])

\* orderMap.get(id): the index of the order with that id, 0 when there is none
orderIndex(orders, id) == FindIndex(orders, LAMBDA o : o.docId = id)

\* a variant of the dependency pass that also reports a parent it cannot find
checkDependenciesStrict(orders) ==
  LET ForOrder(o) ==
        LET Late(parentId) ==
              LET pi == orderIndex(orders, parentId)
              IN IF pi = 0 THEN TRUE
                 ELSE fromISO(o.startDate) < fromISO(orders[pi].endDate)
            bad == SelectSeq(o.dependsOnWorkOrderIds, Late)
        IN [k \in 1..Len(bad) |->
              Violation(o.docId, "DEPENDENCY_ERROR", FALSE, "Started before parent finished",
                        <<fromISO(o.startDate), bad[k]>>)]
  IN Flatten([i \in 1..Len(orders) |-> ForOrder(orders[i])])

\* ConstraintChecker.checkDependencies
checkDependencies(orders) ==
  LET ForOrder(o) ==
        LET deps == o.dependsOnWorkOrderIds
            Late(parentId) ==
              LET pi == orderIndex(orders, parentId)
              IN pi # 0 /\ fromISO(o.startDate) < fromISO(orders[pi].endDate)
            bad == SelectSeq(deps, Late)
        IN [k \in 1..Len(bad) |->
              Violation(o.docId, "DEPENDENCY_ERROR", FALSE, "Started before parent finished",
                        <<fromISO(o.startDate), bad[k],
                          fromISO(orders[orderIndex(orders, bad[k])].endDate)>>)]
  IN Flatten([i \in 1..Len(orders) |-> ForOrder(orders[i])])

RECURSIVE hasCycle(_, _, _, _)
RECURSIVE hasCycleDeps(_, _, _, _, _)
\* the closure hasCycle of checkCircularDependencies; st holds visited, recStack
\* and the violations pushed so far
hasCycle(orders, orderId, path, st) ==
  IF orderId \in st.recStack
  THEN [found |-> TRUE,
        st |-> [st EXCEPT !.violations =
                  Append(@, Violation(orderId, "DEPENDENCY_ERROR", TRUE,
                                      "FATAL: Circular dependency detected",
                                      Append(path, orderId)))]]
  ELSE IF orderId \in st.visited
  THEN [found |-> FALSE, st |-> st]
  ELSE LET st1 == [st EXCEPT !.visited = @ \cup {orderId}, !.recStack = @ \cup {orderId}]
           oi == orderIndex(orders, orderId)
           r == IF oi # 0
                THEN hasCycleDeps(orders, orders[oi].dependsOnWorkOrderIds, 1,
                                  Append(path, orderId), st1)
                ELSE [found |-> FALSE, st |-> st1]
       IN IF r.found THEN r
          ELSE [found |-> FALSE, st |-> [r.st EXCEPT !.recStack = @ \ {orderId}]]

\* the for-loop over order.data.dependsOnWorkOrderIds inside hasCycle
hasCycleDeps(orders, deps, k, path, st) ==
  IF k > Len(deps) THEN [found |-> FALSE, st |-> st]
  ELSE LET r == hasCycle(orders, deps[k], path, st)
       IN IF r.found THEN r ELSE hasCycleDeps(orders, deps, k + 1, path, r.st)

\* ConstraintChecker.checkCircularDependencies
checkCircularDependencies(orders) ==
  LET RECURSIVE Roots(_, _)
      Roots(i, st) ==
        IF i > Len(orders) THEN st
        ELSE IF orders[i].docId \in st.visited THEN Roots(i + 1, st)
        ELSE Roots(i + 1, hasCycle(orders, orders[i].docId, <<>>, st).st)
  IN Roots(1, [visited |-> {}, recStack |-> {}, violations |-> <<>>]).violations

\* ConstraintChecker.checkFixedOrders
checkFixedOrders(current, original) ==
  LET Moved(o) ==
        LET oi == orderIndex(original, o.docId)
        IN o.isMaintenance /\ oi # 0 /\ original[oi].startDate # o.startDate
      moved == SelectSeq(current, Moved)
  IN [k \in 1..Len(moved) |->
        Violation(moved[k].docId, "FIXED_ORDER_MOVED", FALSE,
                  "Maintenance Work Order was moved",
                  <<fromISO(original[orderIndex(original, moved[k].docId)].startDate),
                    fromISO(moved[k].startDate)>>)]

\* a variant of verify that runs the shift pass ahead of the overlap pass
verifyShiftsFirst(orders, centers, hasOriginal, originalOrders) ==
  checkOrderCollidesWithMaintenanceWindow(orders, centers)
  \o (IF hasOriginal THEN checkFixedOrders(orders, originalOrders) ELSE <<>>)
  \o checkShifts(orders, centers)
  \o checkOverlaps(orders)
  \o checkDependencies(orders)
  \o checkFixedOrderOverlaps(orders)
  \o checkCircularDependencies(orders)

\* ConstraintChecker.verify(orders, centers, originalOrders); hasOriginal tells
\* whether the optional third argument was passed
verifyWith(orders, centers, hasOriginal, originalOrders) ==
  checkOrderCollidesWithMaintenanceWindow(orders, centers)
  \o (IF hasOriginal THEN checkFixedOrders(orders, originalOrders) ELSE <<>>)
  \o checkOverlaps(orders)
  \o checkShifts(orders, centers)
  \o checkDependencies(orders)
  \o checkFixedOrderOverlaps(orders)
  \o checkCircularDependencies(orders)

\* ConstraintChecker.verify(orders, centers)
verify(orders, centers) == verifyWith(orders, centers, FALSE, <<>>)

(***************************************************************************)
(* SequencePreserver                                                       *)
(***************************************************************************)
\* the order with the given id in a list that contains it
orderById(orders, id) == orders[orderIndex(orders, id)]

\* array.splice(i, 1) : the array without its i-th element
RemoveAt(seq, i) == SubSeq(seq, 1, i - 1) \o SubSeq(seq, i + 1, Len(seq))

RECURSIVE crawl(_, _, _, _)
\* the stack loop of findDependencyGroups: pop, visit, push all relatives
crawl(orders, stack, visited, groupIds) ==
  IF stack = <<>> THEN [visited |-> visited, groupIds |-> groupIds]
  ELSE LET id == stack[Len(stack)]
           rest == SubSeq(stack, 1, Len(stack) - 1)
           currentOrder == orderById(orders, id)
           relatives ==
             SelectSeq(orders,
               LAMBDA o : \/ Includes(currentOrder.dependsOnWorkOrderIds, o.docId)
                          \/ Includes(o.dependsOnWorkOrderIds, id))
       IN IF id \in visited THEN crawl(orders, rest, visited, groupIds)
          ELSE crawl(orders,
                     rest \o [k \in 1..Len(relatives) |-> relatives[k].docId],
                     visited \cup {id}, Append(groupIds, id))

\* SequencePreserver.findDependencyGroups: the orderIds of each group
findDependencyGroups(orders) ==
  LET hasActualDeps(groupIds) ==
        \E k \in DOMAIN groupIds :
          \/ Len(orderById(orders, groupIds[k]).dependsOnWorkOrderIds) > 0
          \/ Some(orders, LAMBDA other : Includes(other.dependsOnWorkOrderIds, groupIds[k]))
      RECURSIVE Loop(_, _, _)
      Loop(i, visited, groups) ==
        IF i > Len(orders) THEN groups
        ELSE IF orders[i].docId \in visited THEN Loop(i + 1, visited, groups)
        ELSE LET r == crawl(orders, <<orders[i].docId>>, visited, <<>>)
             IN Loop(i + 1, r.visited,
                     IF hasActualDeps(r.groupIds) THEN Append(groups, r.groupIds)
                     ELSE groups)
  IN Loop(1, {}, <<>>)

RECURSIVE topologicalLoop(_, _, _)
\* the while loop of topologicalSort
topologicalLoop(remainingIds, result, centerOrders) ==
  LET Ready(id) ==
        ~Some(remainingIds,
              LAMBDA otherId : Includes(orderById(centerOrders, id).dependsOnWorkOrderIds,
                                        otherId))
      nextIdIndex == FindIndex(remainingIds, Ready)
  IN IF remainingIds = <<>> \/ nextIdIndex = 0 THEN result
     ELSE topologicalLoop(RemoveAt(remainingIds, nextIdIndex),
                          Append(result, remainingIds[nextIdIndex]), centerOrders)

\* a variant of the group sort that leaves the group in the order it was found
discoveryOrder(orderIds, centerOrders) == orderIds

\* SequencePreserver.topologicalSort: the group's topologicalOrdering
topologicalSort(orderIds, centerOrders) == topologicalLoop(orderIds, <<>>, centerOrders)

\* a variant of the original sequence that keeps the array order
arraySequenceOrder(orders) == orders

\* SequencePreserver.findOriginalSequenceOrder: the orders in original rank order
findOriginalSequenceOrder(orders) == sortByStart(orders)

\* a variant of the queue that keeps the maintenance work orders (types.ts:317)
allCenterOrders(orders, wcId) ==
  SelectSeq(orders, LAMBDA o : o.workCenterId = wcId)

\* the production orders one center's queue is built from
sequencedOrders(orders, wcId) ==
  SelectSeq(orders, LAMBDA o : o.workCenterId = wcId /\ ~o.isMaintenance)

\* a variant of the queue that takes every order where the original sequence
\* has it, members of a dependency group too
prepareChronological(orders, wcId) ==
  LET originalSequence == findOriginalSequenceOrder(sequencedOrders(orders, wcId))
  IN [k \in DOMAIN originalSequence |-> originalSequence[k].docId]

\* SequencePreserver.prepare(orders).get(wcId) || [] : the ids in processing order
prepare(orders, wcId) ==
  LET centerOrders == sequencedOrders(orders, wcId)
      dependencyGroups == findDependencyGroups(centerOrders)
      originalSequence == findOriginalSequenceOrder(centerOrders)
      RECURSIVE Interleave(_, _, _)
      Interleave(k, processed, finalSequence) ==
        IF k > Len(originalSequence) THEN finalSequence
        ELSE LET orderId == originalSequence[k].docId
                 gi == FindIndex(dependencyGroups, LAMBDA g : Includes(g, orderId))
                 ordering == topologicalSort(dependencyGroups[gi], centerOrders)
             IN IF orderId \in processed THEN Interleave(k + 1, processed, finalSequence)
                ELSE IF gi # 0
                THEN Interleave(k + 1,
                                processed \cup {ordering[j] : j \in DOMAIN ordering},
                                finalSequence \o ordering)
                ELSE Interleave(k + 1, processed \cup {orderId},
                                Append(finalSequence, orderId))
  IN Interleave(1, {}, <<>>)

(***************************************************************************)
(* ReflowService: the two cursor searches                                  *)
(***************************************************************************)
\* iterations one search loop may take in the model
MaxIter == 24

\* what a search yields when it has not returned within MaxIter iterations
NoTime == 0 - 1

\* allOrders.filter((o) => o.data.isMaintenance && o.data.workCenterId === center.docId)
maintenanceOrdersOf(center, allOrders) ==
  SelectSeq(allOrders, LAMBDA o : o.isMaintenance /\ o.workCenterId = center.docId)

\* center.data.shifts.find((s) => s.dayOfWeek === d): its index, 0 when none
shiftIndex(center, d) == FindIndex(center.shifts, LAMBDA s : s.dayOfWeek = d)

RECURSIVE nextStartLoop(_, _, _, _)
\* the while loop of findNextAvailableStart
nextStartLoop(current, center, maintenanceOrders, fuel) ==
  LET si == shiftIndex(center, dayOfWeekOf(current))
      shift == center.shifts[si]
      shiftStart == setHour(current, shift.startHour)
      shiftEnd == setHour(current, shift.endHour)
      snapped == IF current < shiftStart THEN shiftStart ELSE current
      ob == FindIndex(maintenanceOrders,
                      LAMBDA m : snapped >= fromISO(m.startDate) /\ snapped < fromISO(m.endDate))
      wb == FindIndex(center.maintenanceWindows,
                      LAMBDA w : snapped >= fromISO(w.startDate) /\ snapped < fromISO(w.endDate))
  IN IF fuel = 0 THEN NoTime
     ELSE IF si = 0
     THEN nextStartLoop(nextDayMidnight(current), center, maintenanceOrders, fuel - 1)
     ELSE IF current >= shiftStart /\ current >= shiftEnd
     THEN nextStartLoop(nextDayMidnight(current), center, maintenanceOrders, fuel - 1)
     ELSE IF ob # 0
     THEN nextStartLoop(fromISO(maintenanceOrders[ob].endDate), center, maintenanceOrders,
                        fuel - 1)
     ELSE IF wb # 0
     THEN nextStartLoop(fromISO(center.maintenanceWindows[wb].endDate), center,
                        maintenanceOrders, fuel - 1)
     ELSE snapped

\* a variant of the search that begins at midnight of the proposed day
findFirstStartOfDay(proposedStart, center, allOrders) ==
  nextStartLoop(startOfDay(proposedStart), center, maintenanceOrdersOf(center, allOrders),
                MaxIter)

\* ReflowService.findNextAvailableStart
findNextAvailableStart(proposedStart, center, allOrders) ==
  nextStartLoop(proposedStart, center, maintenanceOrdersOf(center, allOrders), MaxIter)

\* the obstacle list of findEndDate: the windows, then the maintenance orders
obstaclesOf(center, allOrders) ==
  LET ws == center.maintenanceWindows
      ms == maintenanceOrdersOf(center, allOrders)
  IN [k \in 1..Len(ws) |-> [start |-> fromISO(ws[k].startDate), end |-> fromISO(ws[k].endDate)]]
     \o [k \in 1..Len(ms) |-> [start |-> fromISO(ms[k].startDate), end |-> fromISO(ms[k].endDate)]]

\* obstacles.filter(...).sort(by start)[0] : its index in obstacles, 0 when none
nextObstacleIndex(obstacles, current, shiftEnd) ==
  LET In(k) == obstacles[k].start >= current /\ obstacles[k].start < shiftEnd
  IN IF \E k \in DOMAIN obstacles : In(k)
     THEN CHOOSE k \in DOMAIN obstacles :
            /\ In(k)
            /\ \A j \in DOMAIN obstacles :
                 In(j) => \/ obstacles[k].start < obstacles[j].start
                          \/ obstacles[k].start = obstacles[j].start /\ k <= j
     ELSE 0

\* the jump at the bottom of findEndDate's loop: next day, at its shift start if any
nextDayShiftStart(current, center) ==
  LET midnight == nextDayMidnight(current)
      si == shiftIndex(center, dayOfWeekOf(midnight))
  IN IF si # 0 THEN setHour(midnight, center.shifts[si].startHour) ELSE midnight

RECURSIVE endDateLoop(_, _, _, _, _)
\* the while loop of findEndDate
endDateLoop(remainingMins, current, center, obstacles, fuel) ==
  LET si == shiftIndex(center, dayOfWeekOf(current))
      shiftEnd == setHour(current, center.shifts[si].endHour)
      oi == nextObstacleIndex(obstacles, current, shiftEnd)
      nextDeadline == IF oi # 0 THEN obstacles[oi].start ELSE shiftEnd
      minutesAvailable == nextDeadline - current
      consumed == minutesAvailable > 0
      remaining2 == IF consumed THEN remainingMins - minutesAvailable ELSE remainingMins
      current2 == IF consumed THEN nextDeadline ELSE current
  IN IF remainingMins <= 0 THEN current
     ELSE IF fuel = 0 THEN NoTime
     ELSE IF si = 0
     THEN endDateLoop(remainingMins, nextDayShiftStart(current, center), center, obstacles,
                      fuel - 1)
     ELSE IF consumed /\ remainingMins <= minutesAvailable
     THEN current + remainingMins
     ELSE IF oi # 0 /\ current2 = obstacles[oi].start
     THEN endDateLoop(remaining2, obstacles[oi].end, center, obstacles, fuel - 1)
     ELSE endDateLoop(remaining2, nextDayShiftStart(current2, center), center, obstacles,
                      fuel - 1)

\* ReflowService.findEndDate
findEndDate(start, duration, center, allOrders) ==
  endDateLoop(duration, start, center, obstaclesOf(center, allOrders), MaxIter)

(***************************************************************************)
(* The program state                                                       *)
(*                                                                         *)
(* Work orders are objects: heap maps an object reference to the object's  *)
(* fields, and an array of work orders is a sequence of references.        *)
(***************************************************************************)
VARIABLES
  orders,                   \* the caller's array (reflow's argument)
  centers,                  \* the caller's work centers
  heap,                     \* reference -> work order object
  pc,                       \* where reflow is
  violations,               \* reflow's `violations` / originalViolations
  currentOrders,            \* reschedule's deep copy
  changes, explanation,     \* the two logs
  centerIdx,                \* position of reschedule's loop over centers
  processingOrder,          \* rescheduleByCenter's queue (references)
  i,                        \* rescheduleByCenter's loop index (1-based)
  hasCascade,
  correctlyScheduledOrders,
  result,                   \* the ReflowedSchedule returned
  search                    \* the cursor search in progress, when one is followed step by step

vars == <<orders, centers, heap, pc, violations, currentOrders, changes, explanation,
          centerIdx, processingOrder, i, hasCascade, correctlyScheduledOrders, result, search>>

\* reflow's own variables
reflowVars == <<orders, centers, heap, pc, violations, currentOrders, changes, explanation,
                centerIdx, processingOrder, i, hasCascade, correctlyScheduledOrders, result>>

\* no search is followed step by step
NoSearch == [op |-> "none"]

\* the objects an array of references points to
deref(h, refs) == [k \in 1..Len(refs) |-> h[refs[k]]]

\* a variant of the copy that copies the array but shares the work orders
shallowCopy(h, refs) == [refs |-> refs, heap |-> h]

\* JSON.parse(JSON.stringify(orders)): a new array of new objects
jsonClone(h, refs) ==
  LET n == Cardinality(DOMAIN h)
  IN [refs |-> [k \in 1..Len(refs) |-> n + k],
      heap |-> [r \in 1..(n + Len(refs)) |-> IF r <= n THEN h[r] ELSE h[refs[r - n]]]]

\* ReflowService.applyShift: the heap after the order is moved
applyShift(h, ref, start, center, allRefs) ==
  LET h1 == [h EXCEPT ![ref].startDate = toISO(start)]
  IN [h1 EXCEPT ![ref].endDate =
        toISO(findEndDate(start, h1[ref].durationMinutes, center, deref(h1, allRefs)))]

\* `Order ${workOrderNumber} moved to ${startDate}`
changeEntry(o) == [workOrderNumber |-> o.workOrderNumber, startDate |-> o.startDate]

\* `Original violation: ${type}`
originalReason(type) == [text |-> "Original violation", type |-> type, prev |-> 0]

\* `Cascading shift changes due to earlier violations`
cascadingReason ==
  [text |-> "Cascading shift changes due to earlier violations", type |-> "", prev |-> 0]

\* `Collision with previous order ${prevOrder?.data.workOrderNumber}`
collisionReason(prevNumber) ==
  [text |-> "Collision with previous order", type |-> "", prev |-> prevNumber]

(***************************************************************************)
(* ReflowService.reflow                                                    *)
(***************************************************************************)
\* a variant of the early-return test that never takes the early return
neverNoViolations(vs) == Len(vs) < 0

\* violations.length === 0
noViolations(vs) == Len(vs) = 0

\* a variant of the fatal test that looks at the first violation only
firstIsFatal(vs) == Len(vs) > 0 /\ vs[1].isFatal

\* violations.find((v) => v.isFatal)
hasFatal(vs) == Some(vs, LAMBDA v : v.isFatal)

\* reflow, first exit: no violations, the input is returned as it is
ReflowReturnInput ==
  /\ pc = "reflow"
  /\ noViolations(verify(deref(heap, orders), centers))
  /\ violations' = verify(deref(heap, orders), centers)
  /\ result' = [updatedWorkOrders |-> orders, changes |-> <<>>, explanation |-> <<>>]
  /\ pc' = "returned"
  /\ UNCHANGED <<search, orders, centers, heap, currentOrders, changes, explanation, centerIdx,
                 processingOrder, i, hasCascade, correctlyScheduledOrders>>

\* reflow, second exit: throw Error('NOT FIXABLE')
ReflowNotFixable ==
  /\ pc = "reflow"
  /\ ~noViolations(verify(deref(heap, orders), centers))
  /\ hasFatal(verify(deref(heap, orders), centers))
  /\ violations' = verify(deref(heap, orders), centers)
  /\ pc' = "thrown"
  /\ UNCHANGED <<search, orders, centers, heap, currentOrders, changes, explanation, centerIdx,
                 processingOrder, i, hasCascade, correctlyScheduledOrders, result>>

\* reflow calls reschedule, which clones the orders and starts its loop
Reschedule ==
  /\ pc = "reflow"
  /\ ~noViolations(verify(deref(heap, orders), centers))
  /\ ~hasFatal(verify(deref(heap, orders), centers))
  /\ violations' = verify(deref(heap, orders), centers)
  /\ currentOrders' = jsonClone(heap, orders).refs
  /\ heap' = jsonClone(heap, orders).heap
  /\ changes' = <<>>
  /\ explanation' = <<>>
  /\ centerIdx' = 1
  /\ pc' = "centers"
  /\ UNCHANGED <<search, orders, centers, processingOrder, i, hasCascade,
                 correctlyScheduledOrders, result>>

\* currentOrders.filter((o) => o.data.workCenterId === center.docId)
centerOrdersOf(h, refs, center) == SelectSeq(refs, LAMBDA r : h[r].workCenterId = center.docId)

\* the queue of rescheduleByCenter as references into centerOrders
processingRefs(h, centerRefs, center) ==
  LET ids == prepare(deref(h, centerRefs), center.docId)
  IN [k \in 1..Len(ids) |->
        centerRefs[FindIndex(centerRefs, LAMBDA r : h[r].docId = ids[k])]]

\* one turn of reschedule's loop begins: rescheduleByCenter is entered
EnterCenter ==
  /\ pc = "centers"
  /\ centerIdx <= Len(centers)
  /\ processingOrder' =
       processingRefs(heap, centerOrdersOf(heap, currentOrders, centers[centerIdx]),
                      centers[centerIdx])
  /\ correctlyScheduledOrders' = <<>>
  /\ hasCascade' = FALSE
  /\ i' = 1
  /\ pc' = "orders"
  /\ UNCHANGED <<search, orders, centers, heap, violations, currentOrders, changes, explanation,
                 centerIdx, result>>

(***************************************************************************)
(* ReflowService.rescheduleByCenter: one action per branch of the loop body *)
(***************************************************************************)
center == centers[centerIdx]

\* a variant of the loop that takes the i-th order of the center's array
\* instead of the i-th order of the queue
orderAtIndex == centerOrdersOf(heap, currentOrders, center)[i]

currRef == processingOrder[i]

currOrder == heap[currRef]

prevOrder == heap[correctlyScheduledOrders[i - 1]]

currOrderStartDate == fromISO(currOrder.startDate)

prevOrderEndDate == fromISO(prevOrder.endDate)

\* a variant of the test that compares with the start of the previous order
checkAgainstPreviousStart ==
  IF i = 1 THEN TRUE ELSE currOrderStartDate >= fromISO(prevOrder.startDate)

checkForOriginalViolations ==
  IF i = 1 THEN TRUE ELSE currOrderStartDate >= prevOrderEndDate

\* a variant of the lookup that takes the last violation of the order
lastViolationOfOrder ==
  LET idx == {k \in DOMAIN violations : violations[k].orderId = currOrder.docId}
  IN IF idx = {} THEN 0 ELSE CHOOSE k \in idx : \A j \in idx : j <= k

\* originalViolations.find((v) => v.orderId === currOrder.docId): index, 0 if none
origViolation == FindIndex(violations, LAMBDA v : v.orderId = currOrder.docId)

InLoop == pc = "orders" /\ i <= Len(processingOrder)

\* a variant of the move that logs the change and drops the reason
MoveUnexplained(from, reason) ==
  LET newStart == findNextAvailableStart(from, center, deref(heap, currentOrders))
      h2 == applyShift(heap, currRef, newStart, center, currentOrders)
  IN /\ heap' = h2
     /\ changes' = Append(changes, changeEntry(h2[currRef]))
     /\ explanation' = explanation

\* a variant of the move that writes neither log
MoveUnlogged(from, reason) ==
  LET newStart == findNextAvailableStart(from, center, deref(heap, currentOrders))
  IN /\ heap' = applyShift(heap, currRef, newStart, center, currentOrders)
     /\ UNCHANGED <<changes, explanation>>

\* the order is moved to the first slot at or after `from`, and both logs grow
MoveTo(from, reason) ==
  LET newStart == findNextAvailableStart(from, center, deref(heap, currentOrders))
      h2 == applyShift(heap, currRef, newStart, center, currentOrders)
  IN /\ heap' = h2
     /\ changes' = Append(changes, changeEntry(h2[currRef]))
     /\ explanation' = Append(explanation, reason)

\* correctlyScheduledOrders.push(currOrder) and the loop's i++
Placed ==
  /\ correctlyScheduledOrders' = Append(correctlyScheduledOrders, currRef)
  /\ i' = i + 1
  /\ UNCHANGED <<search, orders, centers, pc, violations, currentOrders, centerIdx,
                 processingOrder, result>>

\* a variant where an order that fits behind its predecessor is left alone
\* while the flag is up, whatever violation it has
KeepOriginalInCascade ==
  /\ InLoop /\ hasCascade /\ checkForOriginalViolations /\ origViolation # 0
  /\ UNCHANGED <<heap, changes, explanation, hasCascade>>
  /\ Placed

\* hasCascade, no overlap with the predecessor, but an original violation
ShiftOriginalInCascade ==
  /\ InLoop /\ hasCascade /\ checkForOriginalViolations /\ origViolation # 0
  /\ MoveTo(currOrderStartDate, originalReason(violations[origViolation].type))
  /\ UNCHANGED hasCascade
  /\ Placed

\* a variant of the end of a cascade that leaves the flag set
EndCascadeKeepsFlag ==
  /\ InLoop /\ hasCascade /\ checkForOriginalViolations /\ origViolation = 0
  /\ UNCHANGED <<heap, changes, explanation, hasCascade>>
  /\ Placed

\* hasCascade, the order fits in its original slot: the cascade ends
EndCascade ==
  /\ InLoop /\ hasCascade /\ checkForOriginalViolations /\ origViolation = 0
  /\ hasCascade' = FALSE
  /\ UNCHANGED <<heap, changes, explanation>>
  /\ Placed

\* hasCascade and the order overlaps its predecessor
ShiftCascading ==
  /\ InLoop /\ hasCascade /\ ~checkForOriginalViolations
  /\ MoveTo(prevOrderEndDate, cascadingReason)
  /\ UNCHANGED hasCascade
  /\ Placed

\* a variant of the shift for an original violation that leaves the flag down
ShiftOriginalNoFlag ==
  /\ InLoop /\ ~hasCascade /\ checkForOriginalViolations /\ origViolation # 0
  /\ MoveTo(currOrderStartDate, originalReason(violations[origViolation].type))
  /\ UNCHANGED hasCascade
  /\ Placed

\* no cascade, no overlap with the predecessor, an original violation
ShiftOriginal ==
  /\ InLoop /\ ~hasCascade /\ checkForOriginalViolations /\ origViolation # 0
  /\ MoveTo(currOrderStartDate, originalReason(violations[origViolation].type))
  /\ hasCascade' = TRUE
  /\ Placed

\* no cascade, no overlap, no violation: the order is left alone
KeepInPlace ==
  /\ InLoop /\ ~hasCascade /\ checkForOriginalViolations /\ origViolation = 0
  /\ UNCHANGED <<heap, changes, explanation, hasCascade>>
  /\ Placed

\* no cascade, but the order overlaps its predecessor
ShiftCollision ==
  /\ InLoop /\ ~hasCascade /\ ~checkForOriginalViolations
  /\ MoveTo(prevOrderEndDate,
           IF origViolation # 0 THEN originalReason(violations[origViolation].type)
           ELSE collisionReason(prevOrder.workOrderNumber))
  /\ hasCascade' = TRUE
  /\ Placed

\* a variant of the write-back that stores the k-th returned order at index k
writeAtPosition(h, refs, updated, k) ==
  [j \in DOMAIN refs |-> IF j <= Len(updated) THEN updated[j] ELSE refs[j]]

\* a variant of the write-back that pushes the returned orders onto the array
writeByAppending(h, refs, updated, k) == refs \o updated

RECURSIVE writeBack(_, _, _, _)
\* updatedCenterOrders.forEach: currentOrders[findIndex(same docId)] = updated
writeBack(h, refs, updated, k) ==
  IF k > Len(updated) THEN refs
  ELSE LET idx == FindIndex(refs, LAMBDA r : h[r].docId = h[updated[k]].docId)
       IN writeBack(h, [refs EXCEPT ![idx] = updated[k]], updated, k + 1)

\* rescheduleByCenter returns; reschedule writes the orders back and goes on
LeaveCenter ==
  /\ pc = "orders"
  /\ i > Len(processingOrder)
  /\ currentOrders' = writeBack(heap, currentOrders, correctlyScheduledOrders, 1)
  /\ centerIdx' = centerIdx + 1
  /\ pc' = "centers"
  /\ UNCHANGED <<search, orders, centers, heap, violations, changes, explanation, processingOrder,
                 i, hasCascade, correctlyScheduledOrders, result>>

\* reschedule returns { updatedWorkOrders: currentOrders, changes, explanation }
ReturnSchedule ==
  /\ pc = "centers"
  /\ centerIdx > Len(centers)
  /\ result' = [updatedWorkOrders |-> currentOrders, changes |-> changes,
                explanation |-> explanation]
  /\ pc' = "returned"
  /\ UNCHANGED <<search, orders, centers, heap, violations, currentOrders, changes, explanation,
                 centerIdx, processingOrder, i, hasCascade, correctlyScheduledOrders>>

\* ReflowService.rescheduleByCenter as one call: the heap it leaves, the orders
\* it returns and the entries it pushes to changes and explanation
rescheduleByCenter(h, centerRefs, wc, allRefs, originalViolations) ==
  LET queue == processingRefs(h, centerRefs, wc)
      RECURSIVE Loop(_, _, _, _, _)
      Loop(k, hk, cascade, pushedChanges, pushedReasons) ==
        IF k > Len(queue)
        THEN [heap |-> hk, updated |-> queue, changes |-> pushedChanges,
              explanation |-> pushedReasons]
        ELSE LET curr == hk[queue[k]]
                 prev == hk[queue[k - 1]]
                 fits == IF k = 1 THEN TRUE
                         ELSE fromISO(curr.startDate) >= fromISO(prev.endDate)
                 vi == FindIndex(originalViolations, LAMBDA v : v.orderId = curr.docId)
                 from == IF fits THEN fromISO(curr.startDate) ELSE fromISO(prev.endDate)
                 newStart == findNextAvailableStart(from, wc, deref(hk, allRefs))
                 shifted == applyShift(hk, queue[k], newStart, wc, allRefs)
                 why == IF fits \/ (~cascade /\ vi # 0)
                        THEN originalReason(originalViolations[vi].type)
                        ELSE IF cascade THEN cascadingReason
                        ELSE collisionReason(prev.workOrderNumber)
             IN IF fits /\ vi = 0
                THEN Loop(k + 1, hk, FALSE, pushedChanges, pushedReasons)
                ELSE Loop(k + 1, shifted, TRUE,
                          Append(pushedChanges, changeEntry(shifted[queue[k]])),
                          Append(pushedReasons, why))
  IN Loop(1, h, FALSE, <<>>, <<>>)

\* ReflowService.reschedule as one call
reschedule(h, refs, cs, originalViolations) ==
  LET copy == jsonClone(h, refs)
      RECURSIVE Loop(_, _, _, _, _)
      Loop(c, hc, current, pushedChanges, pushedReasons) ==
        IF c > Len(cs)
        THEN [thrown |-> FALSE, heap |-> hc, updatedWorkOrders |-> current,
              changes |-> pushedChanges, explanation |-> pushedReasons]
        ELSE LET r == rescheduleByCenter(hc, centerOrdersOf(hc, current, cs[c]), cs[c],
                                         current, originalViolations)
             IN Loop(c + 1, r.heap, writeBack(r.heap, current, r.updated, 1),
                     pushedChanges \o r.changes, pushedReasons \o r.explanation)
  IN Loop(1, copy.heap, copy.refs, <<>>, <<>>)

\* ReflowService.reflow as one call; thrown tells that it threw NOT FIXABLE
reflow(h, refs, cs) ==
  LET vs == verify(deref(h, refs), cs)
  IN IF noViolations(vs)
     THEN [thrown |-> FALSE, heap |-> h, updatedWorkOrders |-> refs,
           changes |-> <<>>, explanation |-> <<>>]
     ELSE IF hasFatal(vs)
     THEN [thrown |-> TRUE, heap |-> h, updatedWorkOrders |-> <<>>,
           changes |-> <<>>, explanation |-> <<>>]
     ELSE reschedule(h, refs, cs, vs)

(***************************************************************************)
(* Inputs: the scenarios of scripts/generateData.ts and of the tests, and   *)
(* every schedule of up to MaxOrders orders drawn from OrderShapes          *)
(***************************************************************************)
\* Monday 2026-02-09 at h:m, and the day after
Mon(h, m) == MinutesPerDay + h * 60 + m

Tue(h, m) == 2 * MinutesPerDay + h * 60 + m

WorkOrder(id, wcId, start, end, duration, isMaintenance, deps) ==
  [docId |-> id, workOrderNumber |-> 100 + id, workCenterId |-> wcId,
   startDate |-> Iso(start), endDate |-> Iso(end), durationMinutes |-> duration,
   isMaintenance |-> isMaintenance, dependsOnWorkOrderIds |-> deps]

Shift(day, startHour, endHour) ==
  [dayOfWeek |-> day, startHour |-> startHour, endHour |-> endHour]

Window(start, end) == [startDate |-> Iso(start), endDate |-> Iso(end)]

\* DataGenerator.generateWorkCenters: one center, shifts Mon and Tue 08-17
WorkCenter(id, windows) ==
  [docId |-> id, shifts |-> <<Shift(1, 8, 17), Shift(2, 8, 17)>>,
   maintenanceWindows |-> windows]

\* DataGenerator.createBaseOrder
BaseOrder(id, wcId, deps) == WorkOrder(id, wcId, Mon(8, 0), Mon(10, 0), 120, FALSE, deps)

Scenario(os, cs) == [orders |-> os, centers |-> cs]

CircularScenario ==
  Scenario(<<BaseOrder(1, 1, <<2>>), BaseOrder(2, 1, <<1>>)>>, <<WorkCenter(1, <<>>)>>)

MaintenanceClashScenario ==
  Scenario(<<WorkOrder(1, 1, Mon(8, 0), Mon(10, 0), 120, TRUE, <<>>),
             WorkOrder(2, 1, Mon(9, 0), Mon(10, 0), 120, TRUE, <<>>)>>,
           <<WorkCenter(1, <<>>)>>)

MaintenanceSandwichScenario ==
  Scenario(<<WorkOrder(1, 1, Mon(9, 0), Mon(10, 0), 120, TRUE, <<>>),
             BaseOrder(2, 1, <<>>)>>,
           <<WorkCenter(1, <<Window(Mon(8, 0), Mon(9, 0))>>)>>)

MultiCenterDependencyScenario ==
  Scenario(<<BaseOrder(1, 1, <<>>), BaseOrder(2, 1, <<1>>),
             BaseOrder(3, 2, <<>>), BaseOrder(4, 2, <<3>>),
             WorkOrder(5, 3, Mon(8, 0), Mon(10, 0), 120, TRUE, <<>>),
             BaseOrder(6, 3, <<5>>)>>,
           <<WorkCenter(1, <<>>), WorkCenter(2, <<Window(Mon(8, 0), Mon(10, 0))>>),
             WorkCenter(3, <<>>)>>)

MultiParentScenario ==
  Scenario(<<BaseOrder(1, 1, <<>>),
             WorkOrder(2, 1, Mon(8, 0), Mon(12, 0), 120, FALSE, <<>>),
             BaseOrder(3, 1, <<1, 2>>)>>,
           <<WorkCenter(1, <<>>)>>)

SingleCenterDependencyScenario ==
  Scenario(<<WorkOrder(1, 1, Mon(8, 0), Mon(9, 0), 60, FALSE, <<>>),
             WorkOrder(2, 1, Mon(8, 0), Mon(9, 0), 60, FALSE, <<1>>),
             WorkOrder(3, 1, Mon(8, 0), Mon(9, 0), 60, FALSE, <<2>>),
             WorkOrder(4, 1, Mon(8, 0), Mon(9, 0), 60, FALSE, <<3>>)>>,
           <<WorkCenter(1, <<>>)>>)

OrderCollidesWithMaintenance ==
  Scenario(<<WorkOrder(1, 1, Mon(9, 0), Mon(11, 0), 120, FALSE, <<>>)>>,
           <<WorkCenter(1, <<Window(Mon(10, 0), Mon(12, 0))>>)>>)

InvalidStartScenario ==
  Scenario(<<WorkOrder(1, 1, Mon(6, 0), Mon(9, 0), 60, FALSE, <<>>)>>, <<WorkCenter(1, <<>>)>>)

InvalidEndScenario ==
  Scenario(<<WorkOrder(1, 1, Mon(15, 0), Mon(19, 0), 120, FALSE, <<>>)>>,
           <<WorkCenter(1, <<>>)>>)

InsufficientMinutesScenario ==
  Scenario(<<WorkOrder(1, 1, Mon(8, 0), Mon(9, 0), 120, FALSE, <<>>)>>, <<WorkCenter(1, <<>>)>>)

ComplexRobustnessScenario ==
  Scenario(<<WorkOrder(1, 1, Mon(9, 0), Mon(10, 0), 120, TRUE, <<>>),
             WorkOrder(2, 1, Mon(8, 0), Mon(10, 0), 60, FALSE, <<>>),
             BaseOrder(3, 1, <<2>>),
             WorkOrder(4, 2, Mon(6, 0), Mon(10, 0), 60, FALSE, <<>>),
             WorkOrder(5, 2, Mon(6, 0), Mon(10, 0), 120, FALSE, <<>>),
             BaseOrder(6, 2, <<4, 5>>)>>,
           <<WorkCenter(1, <<Window(Mon(8, 0), Mon(9, 0))>>), WorkCenter(2, <<>>)>>)

PerfectScenario ==
  Scenario(<<BaseOrder(1, 1, <<>>),
             WorkOrder(2, 1, Mon(10, 0), Mon(12, 0), 120, FALSE, <<1>>),
             WorkOrder(3, 1, Mon(13, 0), Mon(15, 0), 120, FALSE, <<2>>)>>,
           <<WorkCenter(1, <<>>)>>)

\* three independent orders that all ask for Monday 08:00-09:00
CascadeScenario ==
  Scenario(<<WorkOrder(1, 1, Mon(8, 0), Mon(9, 0), 60, FALSE, <<>>),
             WorkOrder(2, 1, Mon(8, 0), Mon(9, 0), 60, FALSE, <<>>),
             WorkOrder(3, 1, Mon(8, 0), Mon(9, 0), 60, FALSE, <<>>)>>,
           <<WorkCenter(1, <<>>)>>)

\* a parent/child group emitted ahead of an independent order that starts
\* between them, and one order elsewhere that needs repair
GroupAheadScenario ==
  Scenario(<<WorkOrder(1, 1, Mon(8, 0), Mon(9, 0), 60, FALSE, <<>>),
             WorkOrder(2, 1, Mon(9, 0), Mon(10, 0), 60, FALSE, <<>>),
             WorkOrder(3, 1, Mon(10, 0), Mon(11, 0), 60, FALSE, <<1>>),
             WorkOrder(4, 2, Mon(6, 0), Mon(9, 0), 60, FALSE, <<>>)>>,
           <<WorkCenter(1, <<>>), WorkCenter(2, <<>>)>>)

\* the same group and independent order alone: a schedule without violations
InterleavedGroupScenario ==
  Scenario(<<WorkOrder(1, 1, Mon(8, 0), Mon(9, 0), 60, FALSE, <<>>),
             WorkOrder(2, 1, Mon(9, 0), Mon(10, 0), 60, FALSE, <<>>),
             WorkOrder(3, 1, Mon(10, 0), Mon(11, 0), 60, FALSE, <<1>>)>>,
           <<WorkCenter(1, <<>>)>>)

\* a cascade that ends: the first order is pulled into the shift, the second
\* fits behind it and the third asks for the second's slot
CascadeEndsScenario ==
  Scenario(<<WorkOrder(1, 1, Mon(6, 0), Mon(9, 0), 60, FALSE, <<>>),
             WorkOrder(2, 1, Mon(9, 0), Mon(10, 0), 60, FALSE, <<>>),
             WorkOrder(3, 1, Mon(9, 0), Mon(10, 0), 60, FALSE, <<>>)>>,
           <<WorkCenter(1, <<>>)>>)

\* two work orders on a center that is not in centers, next to one that has
\* to be pulled into its shift
UnknownCenterScenario ==
  Scenario(<<WorkOrder(1, 3, Mon(6, 0), Mon(8, 0), 60, FALSE, <<>>),
             WorkOrder(2, 1, Mon(6, 0), Mon(7, 0), 60, FALSE, <<>>),
             WorkOrder(3, 3, Mon(7, 0), Mon(9, 0), 60, FALSE, <<>>)>>,
           <<WorkCenter(1, <<>>)>>)

Scenarios ==
  {CircularScenario, MaintenanceClashScenario, MaintenanceSandwichScenario,
   MultiCenterDependencyScenario, MultiParentScenario, SingleCenterDependencyScenario,
   OrderCollidesWithMaintenance, InvalidStartScenario, InvalidEndScenario,
   InsufficientMinutesScenario, ComplexRobustnessScenario, PerfectScenario,
   CascadeScenario, GroupAheadScenario, InterleavedGroupScenario, CascadeEndsScenario,
   UnknownCenterScenario}

\* the largest number of orders in an enumerated schedule
MaxOrders == 2

\* start, end, required minutes and kind of an enumerated order
OrderShape(start, end, duration, isMaintenance) ==
  [start |-> start, end |-> end, duration |-> duration, isMaintenance |-> isMaintenance]

OrderShapes ==
  {OrderShape(Mon(8, 0), Mon(9, 0), 60, FALSE),
   OrderShape(Mon(8, 0), Mon(10, 0), 120, FALSE),
   OrderShape(Mon(8, 0), Mon(9, 0), 120, FALSE),
   OrderShape(Mon(6, 0), Mon(9, 0), 60, FALSE),
   OrderShape(Mon(8, 0), Mon(8, 30), 30, FALSE),
   OrderShape(Mon(10, 0), Mon(11, 0), 60, FALSE),
   OrderShape(Mon(15, 0), Mon(19, 0), 120, FALSE),
   OrderShape(Mon(16, 0), Mon(17, 30), 60, FALSE),
   OrderShape(Mon(16, 0), Tue(9, 0), 120, FALSE),
   OrderShape(Mon(9, 0), Mon(10, 0), 60, TRUE),
   OrderShape(Mon(16, 0), Tue(3, 0), 60, TRUE)}

\* who depends on whom in an enumerated schedule of n orders
DependencyPatterns == {"none", "chain", "fanIn", "reverse", "cycle"}

dependsOnOf(pattern, k, n) ==
  CASE pattern = "none" -> <<>>
    [] pattern = "chain" -> IF k > 1 THEN <<k - 1>> ELSE <<>>
    [] pattern = "fanIn" -> IF k = n /\ n > 1 THEN [j \in 1..(n - 1) |-> j] ELSE <<>>
    [] pattern = "reverse" -> IF k < n THEN <<k + 1>> ELSE <<>>
    [] pattern = "cycle" -> <<(k % n) + 1>>
    [] pattern = "cycleAndTail" -> IF k = 1 THEN <<(1 % n) + 1>> ELSE <<1>>
    [] pattern = "lateCycle" -> IF k = 1 THEN <<n>> ELSE <<k>>
    [] pattern = "rootedCycle" ->
         IF k = 1 THEN <<>> ELSE IF k = 2 THEN <<1, n>> ELSE <<k - 1>>

\* which center each order is on: all on center 1, or alternating 1, 2, 1, ...
CenterPatterns == {"same", "split"}

workCenterOf(pattern, k) == IF pattern = "split" /\ k % 2 = 0 THEN 2 ELSE 1

\* the work centers of an enumerated schedule
CenterSets ==
  {<<WorkCenter(1, <<>>), WorkCenter(2, <<>>)>>,
   <<WorkCenter(1, <<Window(Mon(9, 0), Mon(10, 0))>>), WorkCenter(2, <<>>)>>,
   <<[docId |-> 1, shifts |-> <<Shift(1, 8, 12), Shift(1, 13, 17), Shift(2, 8, 17)>>,
      maintenanceWindows |-> <<>>],
     WorkCenter(2, <<>>)>>}

EnumeratedSchedule(n, shapes, dp, cp, cs) ==
  Scenario([k \in 1..n |->
              WorkOrder(k, workCenterOf(cp, k), shapes[k].start, shapes[k].end,
                        shapes[k].duration, shapes[k].isMaintenance,
                        dependsOnOf(dp, k, n))],
           cs)

\* reflow(orders, centers) is entered with the input's arrays
Entered(input) ==
  /\ heap = input.orders
  /\ orders = [k \in 1..Len(input.orders) |-> k]
  /\ centers = input.centers
  /\ pc = "reflow"
  /\ search = NoSearch
  /\ violations = <<>>
  /\ currentOrders = <<>>
  /\ changes = <<>>
  /\ explanation = <<>>
  /\ centerIdx = 0
  /\ processingOrder = <<>>
  /\ i = 0
  /\ hasCascade = FALSE
  /\ correctlyScheduledOrders = <<>>
  /\ result = [updatedWorkOrders |-> <<>>, changes |-> <<>>, explanation |-> <<>>]

Init ==
  \/ \E input \in Scenarios : Entered(input)
  \/ \E n \in 1..MaxOrders :
       \E shapes \in [1..n -> OrderShapes] :
         \E dp \in DependencyPatterns, cp \in CenterPatterns, cs \in CenterSets :
           Entered(EnumeratedSchedule(n, shapes, dp, cp, cs))

Next ==
  \/ ReflowReturnInput
  \/ ReflowNotFixable
  \/ Reschedule
  \/ EnterCenter
  \/ ShiftOriginalInCascade
  \/ EndCascade
  \/ ShiftCascading
  \/ ShiftOriginal
  \/ KeepInPlace
  \/ ShiftCollision
  \/ LeaveCenter
  \/ ReturnSchedule

Spec == Init /\ [][Next]_vars

(***************************************************************************)
(* The cursor searches, one loop iteration at a time                       *)
(*                                                                         *)
(* findNextAvailableStart(proposedStart, center, allOrders) followed by    *)
(* applyShift's findEndDate(start, duration, center, allOrders), or        *)
(* findEndDate alone from any start. centers[1] is the center and          *)
(* deref(heap, orders) is allOrders.                                       *)
(***************************************************************************)
\* a variant of the iteration that does not look at the maintenance windows
nextStartStepWithoutWindows(current, wc, maintenanceOrders) ==
  LET si == shiftIndex(wc, dayOfWeekOf(current))
      shift == wc.shifts[si]
      shiftStart == setHour(current, shift.startHour)
      shiftEnd == setHour(current, shift.endHour)
      snapped == IF current < shiftStart THEN shiftStart ELSE current
      ob == FindIndex(maintenanceOrders,
                      LAMBDA m : snapped >= fromISO(m.startDate) /\ snapped < fromISO(m.endDate))
  IN IF si = 0
     THEN [branch |-> "noShift", current |-> nextDayMidnight(current)]
     ELSE IF current >= shiftStart /\ current >= shiftEnd
     THEN [branch |-> "afterShift", current |-> nextDayMidnight(current)]
     ELSE IF ob # 0
     THEN [branch |-> "orderBlocker", current |-> fromISO(maintenanceOrders[ob].endDate)]
     ELSE [branch |-> "found", current |-> snapped]

\* one iteration of findNextAvailableStart's while loop from `current`
nextStartStep(current, wc, maintenanceOrders) ==
  LET si == shiftIndex(wc, dayOfWeekOf(current))
      shift == wc.shifts[si]
      shiftStart == setHour(current, shift.startHour)
      shiftEnd == setHour(current, shift.endHour)
      snapped == IF current < shiftStart THEN shiftStart ELSE current
      ob == FindIndex(maintenanceOrders,
                      LAMBDA m : snapped >= fromISO(m.startDate) /\ snapped < fromISO(m.endDate))
      wb == FindIndex(wc.maintenanceWindows,
                      LAMBDA w : snapped >= fromISO(w.startDate) /\ snapped < fromISO(w.endDate))
  IN IF si = 0
     THEN [branch |-> "noShift", current |-> nextDayMidnight(current)]
     ELSE IF current >= shiftStart /\ current >= shiftEnd
     THEN [branch |-> "afterShift", current |-> nextDayMidnight(current)]
     ELSE IF ob # 0
     THEN [branch |-> "orderBlocker", current |-> fromISO(maintenanceOrders[ob].endDate)]
     ELSE IF wb # 0
     THEN [branch |-> "windowBlocker", current |-> fromISO(wc.maintenanceWindows[wb].endDate)]
     ELSE [branch |-> "found", current |-> snapped]

\* one iteration of findEndDate's while loop from `current`
endDateStep(remainingMins, current, wc, obstacles) ==
  LET si == shiftIndex(wc, dayOfWeekOf(current))
      shiftEnd == setHour(current, wc.shifts[si].endHour)
      oi == nextObstacleIndex(obstacles, current, shiftEnd)
      nextDeadline == IF oi # 0 THEN obstacles[oi].start ELSE shiftEnd
      minutesAvailable == nextDeadline - current
      consumed == minutesAvailable > 0
      remaining2 == IF consumed THEN remainingMins - minutesAvailable ELSE remainingMins
      current2 == IF consumed THEN nextDeadline ELSE current
  IN IF remainingMins <= 0
     THEN [branch |-> "nothingLeft", current |-> current, remainingMins |-> remainingMins]
     ELSE IF si = 0
     THEN [branch |-> "nextDay", current |-> nextDayShiftStart(current, wc),
           remainingMins |-> remainingMins]
     ELSE IF consumed /\ remainingMins <= minutesAvailable
     THEN [branch |-> "fits", current |-> current + remainingMins, remainingMins |-> 0]
     ELSE IF oi # 0 /\ current2 = obstacles[oi].start
     THEN [branch |-> "obstacle", current |-> obstacles[oi].end, remainingMins |-> remaining2]
     ELSE [branch |-> "nextDay", current |-> nextDayShiftStart(current2, wc),
           remainingMins |-> remaining2]

\* shifts repeat every week and every obstacle lies in the first days, so a
\* cursor that has come this far is kept one week back
FoldAt == 3 * 7 * MinutesPerDay

folds(t) == t >= FoldAt

kept(t) == IF folds(t) THEN t - 7 * MinutesPerDay ELSE t

searchCenter == centers[1]

allOrders == deref(heap, orders)

\* the next iteration of the search in progress
startStep ==
  nextStartStep(search.current, searchCenter, maintenanceOrdersOf(searchCenter, allOrders))

endStep ==
  endDateStep(search.remainingMins, search.current, searchCenter,
              obstaclesOf(searchCenter, allOrders))

InStartLoop == pc = "search" /\ search.op = "findNextAvailableStart"

InEndLoop == pc = "search" /\ search.op = "findEndDate"

\* the cursor moves and the loop goes round again
Continue(step) ==
  /\ search' = [search EXCEPT !.current = kept(step.current),
                              !.folded = search.folded \/ folds(step.current)]
  /\ UNCHANGED reflowVars

\* findNextAvailableStart: no shift today, jump to the next day
StartNoShiftToday == InStartLoop /\ startStep.branch = "noShift" /\ Continue(startStep)

\* findNextAvailableStart: at or after the end of today's shift, jump to the next day
StartAfterShiftEnd == InStartLoop /\ startStep.branch = "afterShift" /\ Continue(startStep)

\* findNextAvailableStart: inside a maintenance order, jump to its end
StartOrderBlocker == InStartLoop /\ startStep.branch = "orderBlocker" /\ Continue(startStep)

\* findNextAvailableStart: inside a maintenance window, jump to its end
StartWindowBlocker == InStartLoop /\ startStep.branch = "windowBlocker" /\ Continue(startStep)

\* findNextAvailableStart returns; applyShift calls findEndDate from the start
StartFound ==
  /\ InStartLoop
  /\ startStep.branch = "found"
  /\ search' = [search EXCEPT !.op = "findEndDate", !.start = startStep.current,
                              !.current = startStep.current,
                              !.remainingMins = search.duration]
  /\ UNCHANGED reflowVars

\* findEndDate: the minutes consumed, the cursor moved, the loop goes round again
EndContinue(step) ==
  /\ search' = [search EXCEPT !.current = kept(step.current),
                              !.remainingMins = step.remainingMins,
                              !.folded = search.folded \/ folds(step.current)]
  /\ UNCHANGED reflowVars

\* findEndDate returns
EndReturn(step) ==
  /\ search' = [search EXCEPT !.op = "done", !.end = step.current, !.current = step.current,
                              !.remainingMins = step.remainingMins]
  /\ UNCHANGED reflowVars

\* findEndDate: nothing to consume, return current
EndNothingLeft == InEndLoop /\ endStep.branch = "nothingLeft" /\ EndReturn(endStep)

\* findEndDate: the rest fits before the next deadline
EndFits == InEndLoop /\ endStep.branch = "fits" /\ EndReturn(endStep)

\* findEndDate: at an obstacle, jump to its end
EndSkipObstacle == InEndLoop /\ endStep.branch = "obstacle" /\ EndContinue(endStep)

\* findEndDate: at the end of the shift, jump to the next day
EndNextDay == InEndLoop /\ endStep.branch = "nextDay" /\ EndContinue(endStep)

\* the centers a search runs on
SearchCenters ==
  {[docId |-> 1, shifts |-> sh, maintenanceWindows |-> ws] :
     sh \in {<<Shift(1, 8, 17), Shift(2, 8, 17)>>,
             <<Shift(1, 8, 12), Shift(1, 13, 17), Shift(2, 8, 17)>>,
             <<Shift(1, 8, 17)>>,
             <<>>},
     ws \in {<<>>, <<Window(Mon(9, 0), Mon(10, 0))>>, <<Window(Mon(10, 0), Mon(12, 0))>>}}

\* the orders there may be: maintenance orders of the center, one of another
\* center and a production order
SearchOrders ==
  <<WorkOrder(1, 1, Mon(9, 0), Mon(10, 0), 60, TRUE, <<>>),
    WorkOrder(2, 1, Mon(9, 30), Mon(11, 0), 90, TRUE, <<>>),
    WorkOrder(3, 1, Mon(16, 0), Tue(3, 0), 660, TRUE, <<>>),
    WorkOrder(4, 2, Mon(8, 0), Mon(17, 0), 540, TRUE, <<>>),
    WorkOrder(5, 1, Mon(8, 0), Mon(17, 0), 540, FALSE, <<>>)>>

SearchOrderSets ==
  {SelectSeq(SearchOrders, LAMBDA o : o.docId \in ids \cup {4, 5}) : ids \in SUBSET {1, 2, 3}}

SearchTimes ==
  {Mon(6, 0), Mon(8, 0), Mon(9, 0), Mon(9, 30), Mon(12, 30), Mon(16, 30), Mon(17, 0),
   Mon(18, 0), Tue(8, 0), Tue(20, 0)}

SearchDurations == {0, 30, 60, 120, 600}

SearchInit ==
  \E c \in SearchCenters, os \in SearchOrderSets, t \in SearchTimes, d \in SearchDurations,
     entry \in {"findNextAvailableStart", "findEndDate"} :
    /\ heap = os
    /\ orders = [k \in 1..Len(os) |-> k]
    /\ centers = <<c>>
    /\ pc = "search"
    /\ search = [op |-> entry, entry |-> entry, proposedStart |-> t, duration |-> d,
                 current |-> t, remainingMins |-> d, start |-> t, end |-> NoTime,
                 folded |-> FALSE]
    /\ violations = <<>>
    /\ currentOrders = <<>>
    /\ changes = <<>>
    /\ explanation = <<>>
    /\ centerIdx = 0
    /\ processingOrder = <<>>
    /\ i = 0
    /\ hasCascade = FALSE
    /\ correctlyScheduledOrders = <<>>
    /\ result = [updatedWorkOrders |-> <<>>, changes |-> <<>>, explanation |-> <<>>]

SearchNext ==
  \/ StartNoShiftToday
  \/ StartAfterShiftEnd
  \/ StartOrderBlocker
  \/ StartWindowBlocker
  \/ StartFound
  \/ EndNothingLeft
  \/ EndFits
  \/ EndSkipObstacle
  \/ EndNextDay

\* the loops run on: a search that can take a step takes it
SearchSpec == SearchInit /\ [][SearchNext]_vars /\ WF_vars(SearchNext)

(***************************************************************************)
(* ConstraintChecker.verify called on its own                              *)
(*                                                                         *)
(* verify(orders, centers) on the caller's array, or                       *)
(* verify(schedule, centers, orders) on a schedule whose work orders were  *)
(* all moved one hour later; result.updatedWorkOrders is that schedule.    *)
(***************************************************************************)
VerifyShapes ==
  {OrderShape(Mon(8, 0), Mon(9, 0), 60, FALSE),
   OrderShape(Mon(8, 0), Mon(12, 0), 240, FALSE),
   OrderShape(Mon(9, 0), Mon(10, 0), 60, FALSE),
   OrderShape(Mon(11, 0), Mon(12, 0), 60, FALSE),
   OrderShape(Mon(8, 0), Mon(8, 30), 30, FALSE),
   OrderShape(Mon(16, 0), Mon(17, 30), 60, FALSE),
   OrderShape(Mon(6, 0), Mon(8, 0), 60, FALSE),
   OrderShape(Mon(9, 0), Mon(10, 0), 60, TRUE)}

\* the dependency graphs of the verified schedules: those of the reflowed
\* ones, a cycle with orders that depend on it, and self-dependencies
VerifyDependencyPatterns == DependencyPatterns \cup {"cycleAndTail", "lateCycle"}

\* a center with two shifts on Monday and a maintenance window, and a plain one
VerifyCenters ==
  <<[docId |-> 1, shifts |-> <<Shift(1, 8, 12), Shift(1, 13, 17), Shift(2, 8, 17)>>,
     maintenanceWindows |-> <<Window(Mon(9, 0), Mon(10, 0))>>],
    WorkCenter(2, <<>>)>>

\* the work orders os, each one hour later
movedLater(os) ==
  [k \in DOMAIN os |->
     [os[k] EXCEPT !.startDate = toISO(fromISO(os[k].startDate) + 60),
                   !.endDate = toISO(fromISO(os[k].endDate) + 60)]]

VerifyInit ==
  \E n \in 1..(MaxOrders + 1) :
    \E shapes \in [1..n -> VerifyShapes] :
      \E dp \in VerifyDependencyPatterns, cp \in CenterPatterns,
         call \in {"verify", "verifyAgainstOriginal"} :
        LET input == EnumeratedSchedule(n, shapes, dp, cp, VerifyCenters)
        IN /\ heap = IF call = "verify" THEN input.orders
                     ELSE input.orders \o movedLater(input.orders)
           /\ orders = [k \in 1..n |-> k]
           /\ centers = input.centers
           /\ pc = call
           /\ result = [updatedWorkOrders |->
                          IF call = "verify" THEN <<>> ELSE [k \in 1..n |-> n + k],
                        changes |-> <<>>, explanation |-> <<>>]
           /\ search = NoSearch
           /\ violations = <<>>
           /\ currentOrders = <<>>
           /\ changes = <<>>
           /\ explanation = <<>>
           /\ centerIdx = 0
           /\ processingOrder = <<>>
           /\ i = 0
           /\ hasCascade = FALSE
           /\ correctlyScheduledOrders = <<>>

\* ConstraintChecker.verify(orders, centers)
Verify ==
  /\ pc = "verify"
  /\ violations' = verify(deref(heap, orders), centers)
  /\ pc' = "verified"
  /\ UNCHANGED <<search, orders, centers, heap, currentOrders, changes, explanation, centerIdx,
                 processingOrder, i, hasCascade, correctlyScheduledOrders, result>>

\* ConstraintChecker.verify(schedule, centers, orders)
VerifyAgainstOriginal ==
  /\ pc = "verifyAgainstOriginal"
  /\ violations' = verifyWith(deref(heap, result.updatedWorkOrders), centers, TRUE,
                              deref(heap, orders))
  /\ pc' = "verifiedAgainstOriginal"
  /\ UNCHANGED <<search, orders, centers, heap, currentOrders, changes, explanation, centerIdx,
                 processingOrder, i, hasCascade, correctlyScheduledOrders, result>>

VerifyNext == Verify \/ VerifyAgainstOriginal

VerifySpec == VerifyInit /\ [][VerifyNext]_vars

(***************************************************************************)
(* SequencePreserver.prepare called on its own, on any array of work       *)
(* orders; processingOrder holds the returned Map, one entry per work      *)
(* center id in insertion order.                                           *)
(***************************************************************************)
PrepareShapes ==
  {OrderShape(Mon(8, 0), Mon(9, 0), 60, FALSE),
   OrderShape(Mon(9, 0), Mon(10, 0), 60, FALSE),
   OrderShape(Mon(10, 0), Mon(11, 0), 60, FALSE),
   OrderShape(Mon(9, 0), Mon(10, 0), 60, TRUE)}

\* dependsOnWorkOrderIds of an order with at most one parent (0: none)
parentList(p) == IF p = 0 THEN <<>> ELSE <<p>>

\* graphs where an order has several parents: all orders feeding the last
\* one, and a cycle behind a first order that depends on nothing
PrepareDependencyPatterns == {"fanIn", "rootedCycle"}

\* prepare(orders) is entered with the array os
PrepareEntered(os) ==
  /\ heap = os
  /\ orders = [k \in DOMAIN os |-> k]
  /\ centers = <<WorkCenter(1, <<>>), WorkCenter(2, <<>>)>>
  /\ pc = "prepare"
  /\ result = [updatedWorkOrders |-> <<>>, changes |-> <<>>, explanation |-> <<>>]
  /\ search = NoSearch
  /\ violations = <<>>
  /\ currentOrders = <<>>
  /\ changes = <<>>
  /\ explanation = <<>>
  /\ centerIdx = 0
  /\ processingOrder = <<>>
  /\ i = 0
  /\ hasCascade = FALSE
  /\ correctlyScheduledOrders = <<>>

PrepareInit ==
  \E n \in 1..(MaxOrders + 1) :
    \E shapes \in [1..n -> PrepareShapes] :
      \E cp \in CenterPatterns :
        \/ \E parent \in [1..n -> 0..n] :
             PrepareEntered([k \in 1..n |->
                              WorkOrder(k, workCenterOf(cp, k), shapes[k].start,
                                        shapes[k].end, shapes[k].duration,
                                        shapes[k].isMaintenance, parentList(parent[k]))])
        \/ \E dp \in PrepareDependencyPatterns :
             PrepareEntered(EnumeratedSchedule(n, shapes, dp, cp, <<>>).orders)

\* SequencePreserver.prepare(orders): groupedByCenter
groupedByCenter(os) ==
  LET wcIds == groupKeys(os)
  IN [g \in DOMAIN wcIds |-> [wcId |-> wcIds[g], sequence |-> prepare(os, wcIds[g])]]

Prepare ==
  /\ pc = "prepare"
  /\ processingOrder' = groupedByCenter(deref(heap, orders))
  /\ pc' = "prepared"
  /\ UNCHANGED <<search, orders, centers, heap, violations, currentOrders, changes, explanation,
                 centerIdx, i, hasCascade, correctlyScheduledOrders, result>>

PrepareNext == Prepare

PrepareSpec == PrepareInit /\ [][PrepareNext]_vars

(***************************************************************************)
(* Properties                                                              *)
(***************************************************************************)
\* the caller's work orders, and the work orders of the returned schedule
inputOrders == deref(heap, orders)

outputOrders == deref(heap, result.updatedWorkOrders)

\* the centers an order can be looked up on
hasCenter(o) == centerIndex(centers, o.workCenterId) # 0

centerOf(o) == centers[centerIndex(centers, o.workCenterId)]

\* sanity of the model: no search ran out of iterations
SearchesReturn ==
  \A r \in DOMAIN heap : fromISO(heap[r].startDate) >= 0 /\ fromISO(heap[r].endDate) >= 0

\* C1 (Closure): whenever reflow returns a schedule, verify reports no violation
\* on the returned work orders.
Closure == pc = "returned" => verify(outputOrders, centers) = <<>>

\* C2 (Idempotence on valid input): when verify reports nothing on the input,
\* reflow returns the input array itself, every work order with the fields it
\* had, and both logs empty.
IdempotentOnValid ==
  (pc = "returned" /\ verify(inputOrders, centers) = <<>>) =>
    /\ result.updatedWorkOrders = orders
    /\ outputOrders = inputOrders
    /\ result.changes = <<>>
    /\ result.explanation = <<>>

ValidInputReturned ==
  /\ pc = "returned"
  /\ verify(inputOrders, centers) = <<>>
  /\ Len(orders) >= 2
  /\ result.updatedWorkOrders = orders

\* C3 (Fatal refusal): once reflow has left its entry point and the violations
\* its initial verify returned hold a fatal one, it has thrown NOT FIXABLE,
\* returned no schedule, copied no work order and written none.
FatalRefusal ==
  (pc # "reflow" /\ \E k \in DOMAIN violations : violations[k].isFatal) =>
    /\ pc = "thrown"
    /\ DOMAIN heap = 1..Len(orders)
    /\ currentOrders = <<>>
    /\ result.updatedWorkOrders = <<>>
    /\ changes = <<>> /\ explanation = <<>>

RefusedFatalInput ==
  /\ pc = "thrown"
  /\ \E k \in DOMAIN violations : violations[k].isFatal /\ violations[k].type = "DEPENDENCY_ERROR"

\* C4 (Input non-mutation): no step of reflow changes the caller's array, any
\* field of a work order the caller passed, or the centers.
InputNotMutated ==
  [][/\ orders' = orders
     /\ centers' = centers
     /\ \A r \in 1..Len(orders) : heap'[r] = heap[r]]_vars

RepairedOnCopy ==
  /\ pc = "returned"
  /\ changes # <<>>
  /\ \E k \in DOMAIN orders : outputOrders[k].startDate # inputOrders[k].startDate

\* C5 (Fixed-order immutability): in a returned schedule every maintenance work
\* order has the start and end strings of the input work order with its id, and
\* verify against the input reports no FIXED_ORDER_MOVED.
FixedOrdersImmutable ==
  pc = "returned" =>
    /\ \A k \in DOMAIN outputOrders :
         outputOrders[k].isMaintenance =>
           \E j \in DOMAIN inputOrders :
             /\ inputOrders[j].docId = outputOrders[k].docId
             /\ inputOrders[j].startDate = outputOrders[k].startDate
             /\ inputOrders[j].endDate = outputOrders[k].endDate
    /\ LET after == verifyWith(outputOrders, centers, TRUE, inputOrders)
       IN \A k \in DOMAIN after : after[k].type # "FIXED_ORDER_MOVED"

RepairedAroundFixedOrder ==
  /\ pc = "returned"
  /\ changes # <<>>
  /\ \E k \in DOMAIN outputOrders :
       /\ outputOrders[k].isMaintenance
       /\ \E v \in DOMAIN violations : violations[v].orderId = outputOrders[k].docId

\* the queue rescheduleByCenter walks for a center, from the input
queueOf(wcId) == prepare(SelectSeq(inputOrders, LAMBDA o : o.workCenterId = wcId), wcId)

\* entry k of explanation explains entry k of changes: the change names a
\* production order of the copy and its present start; "Original violation: T"
\* gives the type of that order's first initial violation; the other two texts
\* are about an order with a predecessor in its queue, and "Collision" names it
Explains(k) ==
  LET c == changes[k]
      e == explanation[k]
      cur == deref(heap, currentOrders)
      oi == FindIndex(cur, LAMBDA o : o.workOrderNumber = c.workOrderNumber)
      o == cur[oi]
      q == queueOf(o.workCenterId)
      pos == FindIndex(q, LAMBDA id : id = o.docId)
      vi == FindIndex(violations, LAMBDA v : v.orderId = o.docId)
  IN /\ oi # 0
     /\ ~o.isMaintenance
     /\ pos # 0
     /\ c.startDate = o.startDate
     /\ \/ vi # 0 /\ e = originalReason(violations[vi].type)
        \/ e = cascadingReason /\ pos > 1
        \/ /\ pos > 1 /\ vi = 0
           /\ e = collisionReason(orderById(inputOrders, q[pos - 1]).workOrderNumber)

\* C6 (Log parity): in every state the two logs have the same length and each
\* explanation explains the change at its index; the returned logs are these.
LogParity ==
  /\ Len(changes) = Len(explanation)
  /\ \A k \in 1..Len(changes) : Explains(k)
  /\ pc = "returned" =>
       /\ Len(result.changes) = Len(result.explanation)
       /\ violations # <<>> => result.changes = changes /\ result.explanation = explanation

CascadeLogged ==
  /\ pc = "returned"
  /\ Len(result.changes) >= 2
  /\ \E k \in DOMAIN result.explanation : result.explanation[k] = cascadingReason
  /\ \E k \in DOMAIN result.explanation : result.explanation[k].text = "Original violation"

\* C7 (Single-tasking): in a returned schedule, the work orders of each center,
\* sorted by start, do not overlap their successor.
SingleTasking ==
  pc = "returned" =>
    \A c \in DOMAIN centers :
      LET sorted == sortByStart(groupOf(outputOrders, centers[c].docId))
      IN \A k \in 1..(Len(sorted) - 1) :
           fromISO(sorted[k + 1].startDate) >= fromISO(sorted[k].endDate)

\* C8 (Dependency): in a returned schedule every child starts at or after the
\* end of each of its parents that is a work order of the schedule.
DependenciesRespected ==
  pc = "returned" =>
    \A k \in DOMAIN outputOrders :
      \A d \in DOMAIN outputOrders[k].dependsOnWorkOrderIds :
        LET pi == orderIndex(outputOrders, outputOrders[k].dependsOnWorkOrderIds[d])
        IN pi # 0 =>
             fromISO(outputOrders[k].startDate) >= fromISO(outputOrders[pi].endDate)

\* C9 (Duration consistency): in a returned schedule the working minutes of
\* every production order differ from its duration by at most one.
DurationConsistent ==
  pc = "returned" =>
    \A k \in DOMAIN outputOrders :
      LET o == outputOrders[k]
          diff == calculateWorkingMinutes(o.startDate, o.endDate, centerOf(o))
                    - o.durationMinutes
      IN (~o.isMaintenance /\ hasCenter(o)) => (diff <= 1 /\ diff >= -1)

\* C10 (Shift membership): in a returned schedule every production order
\* starts inside a shift of its center and ends inside a shift of its center.
ShiftMembership ==
  pc = "returned" =>
    \A k \in DOMAIN outputOrders :
      LET o == outputOrders[k]
      IN (~o.isMaintenance /\ hasCenter(o)) =>
           /\ isTimeInShift(fromISO(o.startDate), centerOf(o).shifts, FALSE)
           /\ isTimeInShift(fromISO(o.endDate), centerOf(o).shifts, TRUE)

\* C11 (Maintenance-window exclusion): in a returned schedule the interval of
\* no production order overlaps a maintenance window of its center.
WindowExclusion ==
  pc = "returned" =>
    \A k \in DOMAIN outputOrders :
      LET o == outputOrders[k]
      IN (~o.isMaintenance /\ hasCenter(o)) =>
           \A w \in DOMAIN centerOf(o).maintenanceWindows :
             ~IntervalOverlaps(fromISO(o.startDate), fromISO(o.endDate),
                               fromISO(centerOf(o).maintenanceWindows[w].startDate),
                               fromISO(centerOf(o).maintenanceWindows[w].endDate))

\* the step-by-step searches return what findNextAvailableStart and findEndDate
\* return, and no returned time was kept a week back
SearchAgrees ==
  pc = "search" =>
    /\ (search.entry = "findNextAvailableStart" /\ search.op \in {"findEndDate", "done"}) =>
         /\ findNextAvailableStart(search.proposedStart, searchCenter, allOrders)
              \in {search.start, NoTime}
         /\ search.start < FoldAt - 7 * MinutesPerDay
    /\ search.op = "done" =>
         /\ findEndDate(search.start, search.duration, searchCenter, allOrders)
              \in {search.end, NoTime}
         /\ ~search.folded

\* C12 (Termination): every search returns: findNextAvailableStart finds a
\* start and findEndDate finds an end, on every center.
SearchTerminates == <>(search.op = "done")

\* C13 (Monotone cursors): in each loop the next cursor is at or after the
\* present one, findNextAvailableStart returns a time at or after its argument
\* and findEndDate returns a time at or after its start.
MonotoneCursors ==
  pc = "search" =>
    /\ InStartLoop => startStep.current >= search.current
    /\ InEndLoop => endStep.current >= search.current
    /\ search.current >= search.proposedStart \/ search.folded
    /\ (search.entry = "findNextAvailableStart" /\ search.op \in {"findEndDate", "done"}) =>
         search.start >= search.proposedStart
    /\ search.op = "done" => search.end >= search.start

BothSearchesReturnedLater ==
  /\ pc = "search"
  /\ search.op = "done"
  /\ search.entry = "findNextAvailableStart"
  /\ search.start > search.proposedStart
  /\ search.end > search.start + search.duration
  /\ search.duration > 0

\* a time a production order may start at on a center: in a shift, in no
\* maintenance window and in no maintenance order of the center
validStart(t, wc, os) ==
  /\ isTimeInShift(t, wc.shifts, FALSE)
  /\ \A w \in DOMAIN wc.maintenanceWindows :
       ~(t >= fromISO(wc.maintenanceWindows[w].startDate)
           /\ t < fromISO(wc.maintenanceWindows[w].endDate))
  /\ \A k \in DOMAIN os :
       (os[k].isMaintenance /\ os[k].workCenterId = wc.docId) =>
         ~(t >= fromISO(os[k].startDate) /\ t < fromISO(os[k].endDate))

\* the valid starts form intervals that begin at a shift start or at the end of
\* a window or maintenance order, so the least one from t on is t or such a point
startCandidates(t, upTo, wc, os) ==
  {t}
    \cup {setHour(d * MinutesPerDay, wc.shifts[k].startHour) :
            d \in (t \div MinutesPerDay)..(upTo \div MinutesPerDay), k \in DOMAIN wc.shifts}
    \cup {fromISO(wc.maintenanceWindows[w].endDate) : w \in DOMAIN wc.maintenanceWindows}
    \cup {fromISO(os[k].endDate) : k \in DOMAIN os}

\* C14 (Earliest valid start): the time findNextAvailableStart returns is a
\* valid start and no valid start lies between its argument and that time.
EarliestValidStart ==
  (pc = "search" /\ search.entry = "findNextAvailableStart"
     /\ search.op \in {"findEndDate", "done"}) =>
    /\ validStart(search.start, searchCenter, allOrders)
    /\ \A c \in startCandidates(search.proposedStart, search.start, searchCenter, allOrders) :
         (c >= search.proposedStart /\ c < search.start) =>
           ~validStart(c, searchCenter, allOrders)

\* C15 (Engine/checker agreement on duration): the working minutes the checker
\* counts between a start findNextAvailableStart returned and the end
\* findEndDate returned for it are the duration.
EngineCheckerAgree ==
  (pc = "search" /\ search.op = "done" /\ search.entry = "findNextAvailableStart"
     /\ search.duration > 0) =>
    calculateWorkingMinutes(toISO(search.start), toISO(search.end), searchCenter)
      = search.duration

RECURSIVE ancestors(_, _, _)
\* the ids reached from the ids in `from` along dependsOn, through work orders
\* of os, in at most `steps` further steps
ancestors(os, from, steps) ==
  LET parents == UNION {{os[k].dependsOnWorkOrderIds[d] : d \in DOMAIN os[k].dependsOnWorkOrderIds} :
                          k \in {j \in DOMAIN os : os[j].docId \in from}}
      present == {id \in parents : orderIndex(os, id) # 0}
  IN IF steps = 0 \/ present \subseteq from THEN from
     ELSE ancestors(os, from \cup present, steps - 1)

\* some work order of os is its own ancestor
hasDependencyCycle(os) ==
  \E k \in DOMAIN os :
    LET parents == {id \in {os[k].dependsOnWorkOrderIds[d] : d \in DOMAIN os[k].dependsOnWorkOrderIds} :
                      orderIndex(os, id) # 0}
    IN os[k].docId \in ancestors(os, parents, Len(os))

\* some two maintenance work orders of one center intersect
fixedOrdersIntersect(os) ==
  \E a, b \in DOMAIN os :
    /\ a < b
    /\ os[a].isMaintenance /\ os[b].isMaintenance
    /\ os[a].workCenterId = os[b].workCenterId
    /\ IntervalOverlaps(fromISO(os[a].startDate), fromISO(os[a].endDate),
                        fromISO(os[b].startDate), fromISO(os[b].endDate))

ChangeLogComplete ==
  (pc = "returned" /\ violations # <<>>) =>
    \A k \in DOMAIN outputOrders :
      LET o == outputOrders[k]
          was == orderById(inputOrders, o.docId)
          entries == {e \in DOMAIN result.changes :
                        result.changes[e].workOrderNumber = o.workOrderNumber}
      IN (fromISO(o.startDate) # fromISO(was.startDate)
            \/ fromISO(o.endDate) # fromISO(was.endDate)) =>
           /\ Cardinality(entries) = 1
           /\ \A e \in entries :
                /\ result.changes[e].startDate = o.startDate
                /\ e \in DOMAIN result.explanation
                /\ result.explanation = explanation /\ result.changes = changes
                /\ Explains(e)

SomeMovedSomeKept ==
  /\ pc = "returned"
  /\ Len(result.changes) >= 2
  /\ \E k \in DOMAIN outputOrders :
       /\ ~outputOrders[k].isMaintenance
       /\ outputOrders[k] = orderById(inputOrders, outputOrders[k].docId)
  /\ \E k \in DOMAIN outputOrders :
       fromISO(outputOrders[k].endDate)
         # fromISO(orderById(inputOrders, outputOrders[k].docId).endDate)

\* the position of a work order in the queue of the center being processed
queuePosition(id) == FindIndex(processingOrder, LAMBDA r : heap[r].docId = id)

\* the ids of the queue of the center being processed
queueIds == [k \in DOMAIN processingOrder |-> heap[processingOrder[k]].docId]

\* in the queue q of ids, every order of os comes after its parents in q
parentsFirst(q, os) ==
  \A c, p \in DOMAIN q :
    Includes(orderById(os, q[c]).dependsOnWorkOrderIds, q[p]) => p < c

\* C18 (Parent before child): in the queue prepare gives for a center, on an
\* input without a dependency cycle, a production order of the center comes
\* after each of its parents that is a production order of the center.
ParentBeforeChild ==
  /\ pc = "orders" => parentsFirst(queueIds, inputOrders)
  /\ (pc = "thrown" /\ ~hasDependencyCycle(inputOrders)) =>
       \A c \in DOMAIN centers : parentsFirst(queueOf(centers[c].docId), inputOrders)

ParentMovedAhead ==
  /\ pc = "orders"
  /\ \E c, p \in DOMAIN processingOrder :
       /\ Includes(heap[processingOrder[c]].dependsOnWorkOrderIds,
                   heap[processingOrder[p]].docId)
       /\ processingOrder[c] < processingOrder[p]
       /\ fromISO(orderById(inputOrders, heap[processingOrder[c]].docId).startDate)
            < fromISO(orderById(inputOrders, heap[processingOrder[p]].docId).startDate)
  /\ \A k \in DOMAIN inputOrders :
       (~inputOrders[k].isMaintenance /\ inputOrders[k].workCenterId = center.docId)
         => queuePosition(inputOrders[k].docId) # 0

\* a production order of the center with no parent and no child among them
independent(cos, a) ==
  \A b \in DOMAIN cos :
    /\ ~Includes(cos[a].dependsOnWorkOrderIds, cos[b].docId)
    /\ ~Includes(cos[b].dependsOnWorkOrderIds, cos[a].docId)

\* a is before b in the original sequence: earlier start, or same start and
\* earlier in the input
originallyBefore(cos, a, b) ==
  \/ fromISO(cos[a].startDate) < fromISO(cos[b].startDate)
  \/ fromISO(cos[a].startDate) = fromISO(cos[b].startDate) /\ a < b

\* in the queue q of ids, the independent orders among cos are in their
\* original order
independentInOrder(q, cos) ==
  \A a, b \in DOMAIN cos :
    (independent(cos, a) /\ independent(cos, b) /\ originallyBefore(cos, a, b)) =>
      /\ FindIndex(q, LAMBDA id : id = cos[a].docId) # 0
      /\ FindIndex(q, LAMBDA id : id = cos[a].docId)
           < FindIndex(q, LAMBDA id : id = cos[b].docId)

\* C19 (Original order of independent orders): in the queue prepare gives for
\* a center, two production orders that are in no dependency group are in
\* their original order.
IndependentOrderKept ==
  /\ pc = "orders" =>
       independentInOrder(queueIds, sequencedOrders(inputOrders, center.docId))
  /\ pc = "thrown" =>
       \A c \in DOMAIN centers :
         independentInOrder(queueOf(centers[c].docId),
                            sequencedOrders(inputOrders, centers[c].docId))

IndependentOrdersResorted ==
  /\ pc = "orders"
  /\ LET cos == sequencedOrders(inputOrders, center.docId)
     IN \E a, b \in DOMAIN cos :
          /\ independent(cos, a) /\ independent(cos, b)
          /\ a > b
          /\ fromISO(cos[a].startDate) < fromISO(cos[b].startDate)
          /\ queuePosition(cos[a].docId) < queuePosition(cos[b].docId)

\* C20 (Cross-center parent as lower bound): a step that shifts a work order
\* leaves it starting at or after the end of each of its parents on another
\* center, and leaves those parents as they were.
CrossCenterParentBound ==
  [][(pc = "orders" /\ Len(changes') > Len(changes)) =>
       \A k \in DOMAIN currentOrders :
         LET parent == heap[currentOrders[k]]
         IN (Includes(currOrder.dependsOnWorkOrderIds, parent.docId)
               /\ parent.workCenterId # currOrder.workCenterId) =>
              /\ heap'[currentOrders[k]] = parent
              /\ fromISO(heap'[currRef].startDate) >= fromISO(parent.endDate)]_vars

\* the entries of a log of the returned schedule that are about work orders of
\* the center wcId: entry k of either log goes with entry k of changes
logOfCenter(log, wcId) ==
  LET onCenter(k) ==
        \E j \in DOMAIN inputOrders :
          /\ inputOrders[j].workOrderNumber = result.changes[k].workOrderNumber
          /\ inputOrders[j].workCenterId = wcId
      idx == SelectSeq([k \in 1..Len(result.changes) |-> k], onCenter)
  IN [k \in 1..Len(idx) |-> log[idx[k]]]

unusedId(os) == CHOOSE id \in 1..(Len(os) + 1) : \A k \in DOMAIN os : os[k].docId # id

\* the caller's heap with an unresolvable parent added to work order k
withUnresolvableParent(k) ==
  [r \in 1..Len(orders) |->
     IF r = orders[k]
     THEN [heap[r] EXCEPT !.dependsOnWorkOrderIds = Append(@, unusedId(inputOrders))]
     ELSE heap[r]]

\* C22 (Unresolvable parents are no constraint): with an id of no work order
\* added to the dependsOn of any one work order, verify returns the violations
\* it returned to reflow, and reflow throws or returns as it did, with the
\* same start and end of every work order and the same changes and explanation.
UnresolvableParentIgnored ==
  pc \in {"returned", "thrown"} =>
    \A k \in DOMAIN orders :
      LET h2 == withUnresolvableParent(k)
          out == reflow(h2, orders, centers)
          after == deref(out.heap, out.updatedWorkOrders)
      IN /\ verify(deref(h2, orders), centers) = violations
         /\ out.thrown <=> pc = "thrown"
         /\ pc = "returned" =>
              /\ Len(after) = Len(outputOrders)
              /\ \A j \in DOMAIN after :
                   /\ after[j].docId = outputOrders[j].docId
                   /\ after[j].startDate = outputOrders[j].startDate
                   /\ after[j].endDate = outputOrders[j].endDate
              /\ out.changes = result.changes
              /\ out.explanation = result.explanation

\* a repaired schedule in which an independent order was shifted, so that the
\* added parent turns an order without dependencies into a group of its own
RepairedWithoutDependencies ==
  /\ pc = "returned"
  /\ Len(result.changes) >= 2
  /\ \E k \in DOMAIN inputOrders :
       /\ independent(inputOrders, k)
       /\ fromISO(outputOrders[k].startDate) # fromISO(inputOrders[k].startDate)
  /\ \E k \in DOMAIN inputOrders : inputOrders[k].dependsOnWorkOrderIds # <<>>

\* the work orders cos of the center wc are independent production orders that
\* all ask for one slot inside a shift of wc, clear of its windows, that holds
\* their common duration
identicalRequests(cos, wc) ==
  /\ Len(cos) >= 2
  /\ \A k \in DOMAIN cos :
       /\ ~cos[k].isMaintenance
       /\ cos[k].dependsOnWorkOrderIds = <<>>
       /\ \A j \in DOMAIN inputOrders :
            ~Includes(inputOrders[j].dependsOnWorkOrderIds, cos[k].docId)
       /\ fromISO(cos[k].startDate) = fromISO(cos[1].startDate)
       /\ fromISO(cos[k].endDate) = fromISO(cos[1].endDate)
       /\ cos[k].durationMinutes = cos[1].durationMinutes
  /\ cos[1].durationMinutes > 0
  /\ isTimeInShift(fromISO(cos[1].startDate), wc.shifts, FALSE)
  /\ isTimeInShift(fromISO(cos[1].endDate), wc.shifts, TRUE)
  /\ calculateWorkingMinutes(cos[1].startDate, cos[1].endDate, wc) = cos[1].durationMinutes
  /\ \A w \in DOMAIN wc.maintenanceWindows :
       ~IntervalOverlaps(fromISO(cos[1].startDate), fromISO(cos[1].endDate),
                         fromISO(wc.maintenanceWindows[w].startDate),
                         fromISO(wc.maintenanceWindows[w].endDate))

\* the first of the identical requests stays, each next one starts when the
\* one before it ends, and each but the first has one change entry
placedBackToBack(cos) ==
  LET placed == [k \in DOMAIN cos |-> orderById(outputOrders, cos[k].docId)]
      entries == {e \in DOMAIN result.changes :
                    \E k \in DOMAIN cos :
                      result.changes[e].workOrderNumber = cos[k].workOrderNumber}
  IN /\ fromISO(placed[1].startDate) = fromISO(cos[1].startDate)
     /\ fromISO(placed[1].endDate) = fromISO(cos[1].endDate)
     /\ \A k \in 2..Len(cos) :
          fromISO(placed[k].startDate) = fromISO(placed[k - 1].endDate)
     /\ Cardinality(entries) = Len(cos) - 1

\* every explanation about one of the orders cos is the cascading text or
\* names a collision with the previous order
explainedAsCascade(cos) ==
  \A e \in DOMAIN result.changes :
    (\E k \in DOMAIN cos : result.changes[e].workOrderNumber = cos[k].workOrderNumber) =>
      \/ result.explanation[e] = cascadingReason
      \/ result.explanation[e].text = "Collision with previous order"

\* C24 (Cascade of identical requests): when the work orders of a center are
\* two or more independent production orders that ask for the same slot, in a
\* shift and clear of obstacles, with the same duration, the returned schedule
\* has them back to back in input order, the first where it was, with one
\* change entry for each but the first, each explained as a cascade or as a
\* collision with the previous order.
CascadeOfIdenticalRequests ==
  pc = "returned" =>
    \A c \in DOMAIN centers :
      LET cos == groupOf(inputOrders, centers[c].docId)
      IN identicalRequests(cos, centers[c]) =>
           placedBackToBack(cos) /\ explainedAsCascade(cos)

\* the place of a violation type in the order of verify's passes
passRank(type) ==
  CASE type = "MAINTENANCE_COLLISION" -> 1
    [] type = "FIXED_ORDER_MOVED" -> 2
    [] type = "OVERLAP" -> 3
    [] type = "OUTSIDE_SHIFT" -> 4
    [] type = "DEPENDENCY_ERROR" -> 5

\* the types of the violations the initial verify reported on a work order
violationTypesOf(o) ==
  {violations[v].type : v \in {k \in DOMAIN violations : violations[k].orderId = o.docId}}

\* a production order whose interval overlaps a maintenance window of its center
collidesWithWindow(o) ==
  /\ ~o.isMaintenance
  /\ hasCenter(o)
  /\ \E w \in DOMAIN centerOf(o).maintenanceWindows :
       IntervalOverlaps(fromISO(o.startDate), fromISO(o.endDate),
                        fromISO(centerOf(o).maintenanceWindows[w].startDate),
                        fromISO(centerOf(o).maintenanceWindows[w].endDate))

\* C25 (Root-cause precedence): in a returned schedule every explanation
\* "Original violation: T" is about a work order on which the initial verify
\* reported T and no type of an earlier pass, T is never FIXED_ORDER_MOVED, and
\* T is MAINTENANCE_COLLISION when the work order collided with a maintenance
\* window of its center.
RootCausePrecedence ==
  pc = "returned" =>
    \A e \in DOMAIN result.explanation :
      result.explanation[e].text = "Original violation" =>
        \E k \in DOMAIN inputOrders :
          LET o == inputOrders[k]
              T == result.explanation[e].type
          IN /\ o.workOrderNumber = result.changes[e].workOrderNumber
             /\ T \in violationTypesOf(o)
             /\ \A U \in violationTypesOf(o) : passRank(T) <= passRank(U)
             /\ T # "FIXED_ORDER_MOVED"
             /\ collidesWithWindow(o) => T = "MAINTENANCE_COLLISION"

\* a work order with violations of three passes was shifted and explained by
\* its collision with a window
WindowCollisionExplainedFirst ==
  /\ pc = "returned"
  /\ \E e \in DOMAIN result.explanation :
       /\ result.explanation[e] = originalReason("MAINTENANCE_COLLISION")
       /\ \E k \in DOMAIN inputOrders :
            /\ inputOrders[k].workOrderNumber = result.changes[e].workOrderNumber
            /\ {"OVERLAP", "OUTSIDE_SHIFT"} \subseteq violationTypesOf(inputOrders[k])

\* the order processed just before the present one was shifted: the last entry
\* of changes is about it
previousWasShifted ==
  /\ i > 1
  /\ changes # <<>>
  /\ changes[Len(changes)].workOrderNumber = prevOrder.workOrderNumber

\* C26 (Cascading label): a step of a center's pass on a work order without a
\* violation of its own, whose predecessor in the queue was shifted and now
\* ends after its start, shifts it with the explanation "Cascading shift
\* changes due to earlier violations"; and a step that gives this explanation
\* is about a work order whose predecessor in the queue was shifted.
CascadingLabel ==
  [][/\ (InLoop /\ previousWasShifted /\ violationTypesOf(currOrder) = {}
           /\ prevOrderEndDate > currOrderStartDate) =>
          /\ Len(changes') = Len(changes) + 1
          /\ explanation' = Append(explanation, cascadingReason)
     /\ (InLoop /\ Len(explanation') > Len(explanation)
           /\ explanation'[Len(explanation')] = cascadingReason) =>
          previousWasShifted]_vars

\* the last step was a cascading shift of an order without a violation of its own
CascadePushedCleanOrder ==
  /\ pc = "orders"
  /\ explanation # <<>>
  /\ explanation[Len(explanation)] = cascadingReason
  /\ \E k \in DOMAIN inputOrders :
       /\ inputOrders[k].workOrderNumber = changes[Len(changes)].workOrderNumber
       /\ violationTypesOf(inputOrders[k]) = {}

\* the work orders verify was called on, once it has returned
verifiedOrders ==
  IF pc = "verifiedAgainstOriginal" THEN deref(heap, result.updatedWorkOrders)
  ELSE deref(heap, orders)

verifyReturned == pc \in {"verified", "verifiedAgainstOriginal"}

\* the OVERLAP violations verify returned that are about an order of center wcId
overlapViolationsOn(wcId) ==
  {v \in DOMAIN violations :
     /\ violations[v].type = "OVERLAP"
     /\ \E k \in DOMAIN verifiedOrders :
          /\ verifiedOrders[k].docId = violations[v].orderId
          /\ verifiedOrders[k].workCenterId = wcId}

shiftViolationOn(o, text) ==
  \E v \in DOMAIN violations :
    /\ violations[v].orderId = o.docId
    /\ violations[v].type = "OUTSIDE_SHIFT"
    /\ violations[v].message.text = text

\* C28 (Shift boundaries in the checker): about a production order on a center
\* it knows, verify returns "Invalid Start" exactly when the start is in
\* [shiftStart, shiftEnd) of no shift of its weekday, and "Invalid End" exactly
\* when the end is in (shiftStart, shiftEnd] of no shift of its weekday, the
\* whole timestamp compared.
ShiftBoundaries ==
  verifyReturned =>
    \A k \in DOMAIN verifiedOrders :
      LET o == verifiedOrders[k]
      IN (~o.isMaintenance /\ hasCenter(o)) =>
           /\ shiftViolationOn(o, "Invalid Start")
                <=> ~isTimeInShift(fromISO(o.startDate), centerOf(o).shifts, FALSE)
           /\ shiftViolationOn(o, "Invalid End")
                <=> ~isTimeInShift(fromISO(o.endDate), centerOf(o).shifts, TRUE)

\* the path of a cycle report closes a cycle of os: its last id occurs earlier
\* in it, and every work order on it depends on the one listed next
closesCycle(path, os) ==
  /\ Len(path) >= 2
  /\ \E k \in 1..(Len(path) - 1) : path[k] = path[Len(path)]
  /\ \A k \in 1..(Len(path) - 1) :
       /\ orderIndex(os, path[k]) # 0
       /\ Includes(orderById(os, path[k]).dependsOnWorkOrderIds, path[k + 1])

\* C29 (Cycle reports are real cycles): the path in the message of every fatal
\* DEPENDENCY_ERROR verify returns ends in an id that occurs earlier in the
\* path, each work order on it depends on the next one, and no work order
\* heads two paths: this for every root of the search, also those explored
\* after a cycle was reported.
CycleReportsAreCycles ==
  verifyReturned =>
    /\ \A v \in DOMAIN violations :
         (violations[v].type = "DEPENDENCY_ERROR" /\ violations[v].isFatal) =>
           closesCycle(violations[v].message.refs, verifiedOrders)
    /\ \A v, w \in DOMAIN violations :
         (/\ violations[v].type = "DEPENDENCY_ERROR" /\ violations[v].isFatal
          /\ violations[w].type = "DEPENDENCY_ERROR" /\ violations[w].isFatal
          /\ violations[v].message.refs[1] = violations[w].message.refs[1]) => v = w

\* the pass of verify a violation comes from
passOf(v) ==
  CASE v.type = "MAINTENANCE_COLLISION" /\ ~v.isFatal -> 1
    [] v.type = "FIXED_ORDER_MOVED" -> 2
    [] v.type = "OVERLAP" -> 3
    [] v.type = "OUTSIDE_SHIFT" -> 4
    [] v.type = "DEPENDENCY_ERROR" /\ ~v.isFatal -> 5
    [] v.type = "MAINTENANCE_COLLISION" /\ v.isFatal -> 6
    [] v.type = "DEPENDENCY_ERROR" /\ v.isFatal -> 7

\* the place in the verified array of the work order with this id
inputPlace(id) == orderIndex(verifiedOrders, id)

\* violation v is about an order that comes no later than the order of w when
\* the orders os are taken center by center, the centers in order of their
\* first order in os and the orders of a center by start
byCenterThenStart(v, w, os) ==
  LET a == orderById(os, v.orderId)
      b == orderById(os, w.orderId)
      first(wcId) == FindIndex(os, LAMBDA o : o.workCenterId = wcId)
      sorted == sortByStart(groupOf(os, a.workCenterId))
  IN IF a.workCenterId # b.workCenterId
     THEN first(a.workCenterId) < first(b.workCenterId)
     ELSE FindIndex(sorted, LAMBDA o : o.docId = a.docId)
            <= FindIndex(sorted, LAMBDA o : o.docId = b.docId)

placeIn(q, id) == FindIndex(q, LAMBDA x : x = id)

\* how often the id occurs in the sequence q
occurrences(q, id) == Cardinality({k \in DOMAIN q : q[k] = id})

\* a and b of cos depend on one another, one way or the other
linked(cos, a, b) ==
  \/ Includes(cos[a].dependsOnWorkOrderIds, cos[b].docId)
  \/ Includes(cos[b].dependsOnWorkOrderIds, cos[a].docId)

RECURSIVE component(_, _)
\* the members of cos connected to those in `from` through dependencies taken
\* in either direction
component(cos, from) ==
  LET more == {b \in DOMAIN cos : \E a \in from : linked(cos, a, b)}
  IN IF more \subseteq from THEN from ELSE component(cos, from \cup more)

\* C33 (Processing stream is a permutation): the sequence prepare returns
\* for a work center holds every production work order of the center exactly
\* once and no maintenance work order, whatever the dependencies are.
ProcessingStreamIsPermutation ==
  pc = "prepared" =>
    \A g \in DOMAIN processingOrder :
      LET q == processingOrder[g].sequence
      IN \A k \in DOMAIN inputOrders :
           LET o == inputOrders[k]
           IN IF o.workCenterId = processingOrder[g].wcId /\ ~o.isMaintenance
              THEN occurrences(q, o.docId) = 1
              ELSE occurrences(q, o.docId) = 0

\* the member of the dependency group of a that comes first in the original
\* sequence of cos (a itself when a is independent)
anchorOf(cos, a) ==
  LET members == component(cos, {a})
  IN CHOOSE m \in members : \A x \in members \ {m} : originallyBefore(cos, m, x)

\* the dependency group of a in cos has no dependency cycle
acyclicGroup(cos, a) ==
  LET members == component(cos, {a})
  IN ~hasDependencyCycle(SelectSeq(cos, LAMBDA o : \E m \in members : cos[m].docId = o.docId))

\* C31 (Atomic group emission): in the sequence prepare returns for a work
\* center, the members of a dependency group that has a topological order
\* (no dependency cycle) are each there once, on contiguous places, every
\* member after its parents in the group; and the group stands at the place
\* of its earliest-starting member: against an order outside the group it is
\* in the original order of the earliest-starting members of the two groups
\* (an independent order counting as its own group), so no independent order
\* is between two members of a group.
AtomicGroupEmission ==
  pc = "prepared" =>
    \A g \in DOMAIN processingOrder :
      LET q == processingOrder[g].sequence
          cos == sequencedOrders(inputOrders, processingOrder[g].wcId)
      IN \A a \in DOMAIN cos :
           acyclicGroup(cos, a) =>
             LET members == component(cos, {a})
                 places == {placeIn(q, cos[m].docId) : m \in members}
             IN /\ \A m \in members : occurrences(q, cos[m].docId) = 1
                /\ \A x, y \in places : y - x < Cardinality(members)
                /\ \A c, p \in members :
                     Includes(cos[c].dependsOnWorkOrderIds, cos[p].docId) =>
                       placeIn(q, cos[p].docId) < placeIn(q, cos[c].docId)
                /\ \A b \in DOMAIN cos \ members :
                     (acyclicGroup(cos, b)
                        /\ originallyBefore(cos, anchorOf(cos, a), anchorOf(cos, b))) =>
                       placeIn(q, cos[a].docId) < placeIn(q, cos[b].docId)

\* prepare returned a sequence where a parent that starts last was taken
\* first, its child next, and an independent order that starts between the
\* two after both
GroupEmittedAhead ==
  /\ pc = "prepared"
  /\ \E g \in DOMAIN processingOrder :
       LET q == processingOrder[g].sequence
           cos == sequencedOrders(inputOrders, processingOrder[g].wcId)
       IN /\ ~hasDependencyCycle(cos)
          /\ \E c, p, b \in DOMAIN cos :
               /\ Includes(cos[c].dependsOnWorkOrderIds, cos[p].docId)
               /\ independent(cos, b)
               /\ fromISO(cos[c].startDate) < fromISO(cos[b].startDate)
               /\ fromISO(cos[b].startDate) < fromISO(cos[p].startDate)
               /\ placeIn(q, cos[p].docId) + 1 = placeIn(q, cos[c].docId)
               /\ placeIn(q, cos[c].docId) + 1 = placeIn(q, cos[b].docId)

\* C32 (Per-WC write frame): a step of reschedule's pass over a work center
\* leaves every work order of another center and every maintenance work
\* order as it was, at its place in currentOrders; and when the step appends
\* to the logs, it appends one change and one explanation, the change naming
\* the order just processed, a production order of the center.
PerCenterWriteFrame ==
  [][pc = "orders" =>
       /\ \A k \in DOMAIN currentOrders :
            LET o == heap[currentOrders[k]]
            IN (o.workCenterId # center.docId \/ o.isMaintenance) =>
                 heap'[currentOrders'[k]] = o
       /\ \A r \in DOMAIN heap :
            (heap[r].workCenterId # center.docId \/ heap[r].isMaintenance) =>
              heap'[r] = heap[r]
       /\ (changes' # changes \/ explanation' # explanation) =>
            /\ Len(changes') = Len(changes) + 1
            /\ Len(explanation') = Len(explanation) + 1
            /\ SubSeq(changes', 1, Len(changes)) = changes
            /\ SubSeq(explanation', 1, Len(explanation)) = explanation
            /\ changes'[Len(changes')].workOrderNumber = currOrder.workOrderNumber
            /\ currOrder.workCenterId = center.docId
            /\ ~currOrder.isMaintenance]_vars

\* in the pass over a center that has a maintenance work order, while another
\* center has work orders too, the order just processed was shifted and logged
ShiftedBesideFixedAndForeign ==
  /\ pc = "orders"
  /\ i > 1
  /\ changes # <<>>
  /\ changes[Len(changes)] = changeEntry(heap[correctlyScheduledOrders[i - 1]])
  /\ heap[correctlyScheduledOrders[i - 1]].startDate
       # orderById(inputOrders, heap[correctlyScheduledOrders[i - 1]].docId).startDate
  /\ \E k \in DOMAIN currentOrders :
       heap[currentOrders[k]].workCenterId = center.docId /\ heap[currentOrders[k]].isMaintenance
  /\ \E k \in DOMAIN currentOrders : heap[currentOrders[k]].workCenterId # center.docId

\* C34 (Cascade flag meaning): during a center's pass, before each iteration
\* and after the last, hasCascade is true exactly when the order processed in
\* the iteration just before was shifted (the last change entry is about
\* it); before the first iteration it is false.
CascadeFlagMeaning ==
  pc = "orders" =>
    /\ hasCascade <=> previousWasShifted
    /\ i = 1 => ~hasCascade

\* the flag is down again after a cascade: the order processed last was
\* left alone and the one before it was shifted
FlagDownAfterCascade ==
  /\ pc = "orders"
  /\ i > 2
  /\ ~hasCascade
  /\ changes # <<>>
  /\ changes[Len(changes)] = changeEntry(heap[correctlyScheduledOrders[i - 2]])

\* C35 (Placed-chain invariant): during a center's pass, each work order
\* placed so far starts at or after the end of the one placed just before it,
\* and so at or after the end of every one placed before it: the orders
\* placed are pairwise non-overlapping, in processing order. (Every input
\* work order starts before it ends.)
PlacedChain ==
  (pc = "orders" /\ \A k \in DOMAIN inputOrders :
                      fromISO(inputOrders[k].startDate) < fromISO(inputOrders[k].endDate)) =>
    /\ \A k \in 2..Len(correctlyScheduledOrders) :
         fromISO(heap[correctlyScheduledOrders[k]].startDate)
           >= fromISO(heap[correctlyScheduledOrders[k - 1]].endDate)
    /\ \A j, k \in DOMAIN correctlyScheduledOrders :
         j < k => fromISO(heap[correctlyScheduledOrders[k]].startDate)
                    >= fromISO(heap[correctlyScheduledOrders[j]].endDate)

\* three orders are placed; the second asked for a start before the end the
\* first was given, the third for a start before the end the second was given
ChainOfThreePlaced ==
  /\ pc = "orders"
  /\ Len(correctlyScheduledOrders) >= 3
  /\ \A k \in 2..3 :
       fromISO(orderById(inputOrders, heap[correctlyScheduledOrders[k]].docId).startDate)
         < fromISO(heap[correctlyScheduledOrders[k - 1]].endDate)

\* the present order starts before the present end of the order processed
\* just before it
startsBeforePreviousEnd ==
  i > 1 /\ fromISO(currOrder.startDate) < fromISO(heap[correctlyScheduledOrders[i - 1]].endDate)

\* the present order has a violation in the output of the initial verify
hasInitialViolation == \E v \in DOMAIN violations : violations[v].orderId = currOrder.docId

\* C36 (Shift decision): an iteration of a center's pass shifts its work
\* order (one change entry about it and one explanation are appended, and
\* its start and end are recomputed by the two searches) if and only if the
\* order starts before the present end of the order processed before it or
\* has a violation in the initial verify output; otherwise order and logs
\* stay as they are. Whether hasCascade is up plays no part in this, nor in
\* the start the order is given; and the entries are appended whether or not
\* the recomputed dates differ from the old ones.
ShiftDecision ==
  [][InLoop =>
       LET from == IF startsBeforePreviousEnd
                   THEN fromISO(heap[correctlyScheduledOrders[i - 1]].endDate)
                   ELSE fromISO(currOrder.startDate)
           newStart == findNextAvailableStart(from, center, deref(heap, currentOrders))
       IN IF startsBeforePreviousEnd \/ hasInitialViolation
          THEN /\ Len(changes') = Len(changes) + 1
               /\ Len(explanation') = Len(explanation) + 1
               /\ changes'[Len(changes')] = changeEntry(heap'[currRef])
               /\ heap'[currRef].startDate = toISO(newStart)
               /\ heap'[currRef].endDate =
                    toISO(findEndDate(newStart, currOrder.durationMinutes, center,
                                      deref(heap, currentOrders)))
          ELSE /\ heap' = heap
               /\ changes' = changes
               /\ explanation' = explanation]_vars

\* the order processed last was shifted and logged, and has the start and
\* the end it had in the input
LoggedWithoutMoving ==
  /\ pc = "orders"
  /\ i > 1
  /\ changes # <<>>
  /\ changes[Len(changes)] = changeEntry(heap[correctlyScheduledOrders[i - 1]])
  /\ LET o == heap[correctlyScheduledOrders[i - 1]]
         was == orderById(inputOrders, o.docId)
     IN /\ fromISO(o.startDate) = fromISO(was.startDate)
        /\ fromISO(o.endDate) = fromISO(was.endDate)

\* C37 (No WO is moved earlier): in the schedule reflow returns, every work
\* order starts at or after its start in the input.
NeverMovedEarlier ==
  pc = "returned" =>
    \A k \in DOMAIN outputOrders :
      fromISO(outputOrders[k].startDate)
        >= fromISO(orderById(inputOrders, outputOrders[k].docId).startDate)

\* reflow returned a schedule where a work order that had a violation starts
\* on a later day than in the input
MovedToLaterDay ==
  /\ pc = "returned"
  /\ \E k \in DOMAIN outputOrders :
       /\ \E v \in DOMAIN violations : violations[v].orderId = outputOrders[k].docId
       /\ startOfDay(fromISO(outputOrders[k].startDate))
            > startOfDay(fromISO(orderById(inputOrders, outputOrders[k].docId).startDate))

\* C38 (findNextAvailableStart is idempotent): the start the search returns
\* is returned again by a search that begins at it, on the same center and
\* orders.
StartSearchIdempotent ==
  (pc = "search" /\ search.entry = "findNextAvailableStart"
     /\ search.op \in {"findEndDate", "done"}) =>
    findNextAvailableStart(search.start, searchCenter, allOrders) = search.start

\* the search returned the end of a maintenance window or of a maintenance
\* work order of the center, later than the proposed start
StartFoundBehindBlocker ==
  /\ pc = "search"
  /\ search.entry = "findNextAvailableStart"
  /\ search.op = "findEndDate"
  /\ search.start > search.proposedStart
  /\ \/ \E w \in DOMAIN searchCenter.maintenanceWindows :
          fromISO(searchCenter.maintenanceWindows[w].endDate) = search.start
     \/ \E k \in DOMAIN allOrders :
          /\ allOrders[k].isMaintenance
          /\ allOrders[k].workCenterId = searchCenter.docId
          /\ fromISO(allOrders[k].endDate) = search.start

\* C39 (Result shape): the schedule reflow returns has as many work orders as
\* the input, with the same id at every index; a returned work order differs
\* from the input one in its start and end at most; and a work order whose
\* work center is not among the centers has its input start and end.
ResultShape ==
  pc = "returned" =>
    /\ Len(outputOrders) = Len(inputOrders)
    /\ \A k \in DOMAIN inputOrders :
         /\ k \in DOMAIN outputOrders
         /\ outputOrders[k] = [inputOrders[k] EXCEPT !.startDate = outputOrders[k].startDate,
                                                     !.endDate = outputOrders[k].endDate]
         /\ ~hasCenter(inputOrders[k]) =>
              /\ outputOrders[k].startDate = inputOrders[k].startDate
              /\ outputOrders[k].endDate = inputOrders[k].endDate

\* reflow returned a repaired schedule in which a work order of a center that
\* is not among the centers, reported by verify, is as it was in the input
UnknownCenterOrderReturned ==
  /\ pc = "returned"
  /\ changes # <<>>
  /\ \E k \in DOMAIN inputOrders :
       /\ ~hasCenter(inputOrders[k])
       /\ \E v \in DOMAIN violations : violations[v].orderId = inputOrders[k].docId
       /\ outputOrders[k] = inputOrders[k]

====
